---- MODULE Spec2Model ----
(***************************************************************************)
(* HyperCapslock: the keyboard hook state machine (macOS event tap and     *)
(* Windows low-level hook), the action resolver and executor, and the      *)
(* configuration commands that write the mapping table.                    *)
(***************************************************************************)
EXTENDS Integers, Sequences, FiniteSets, TLC

VARIABLES
    platform,               \* target_os the binary was built for
    CAPS_DOWN,              \* lib.rs:19
    CAPS_PRESSED_AT_MS,     \* lib.rs:20
    DID_REMAP,              \* lib.rs:21
    IS_PAUSED,              \* lib.rs:22
    ACTION_MAPPINGS,        \* lib.rs:27  None or a sequence of entries
    SHELL_MAPPINGS,         \* lib.rs:25  None or a set of <<key, command>>
    INPUT_SOURCE_MAPPINGS,  \* lib.rs:26  None or a set of <<key, id>>
    action_mappings_yml,    \* the persisted file: None or the rendered document
    now,                    \* the wall clock read by now_millis()
    hold,                   \* the physical Hyper key and the history of its current hold
    inflight,               \* synthetic events posted to the OS, not yet seen by the hook
    out,                    \* what the step just taken did (the callback's verdict and effects)
    EVENT_TAP_PORT,         \* hook_macos.rs:37, the recorded tap handle (0: none)
    pc,                     \* where the hook thread and the main thread stand, with their locals
    lock,                   \* the owner of each mutex
    main_queue,             \* input-source switches queued on the main dispatch queue
    workers                 \* the threads spawned for shell commands

vars == <<platform, CAPS_DOWN, CAPS_PRESSED_AT_MS, DID_REMAP, IS_PAUSED,
          ACTION_MAPPINGS, SHELL_MAPPINGS, INPUT_SOURCE_MAPPINGS,
          action_mappings_yml, now, hold, inflight, out,
          EVENT_TAP_PORT, pc, lock, main_queue, workers>>

\* the state the thread-level view adds; a step that runs a whole callback or
\* a whole command at once leaves it alone
sysVars == <<EVENT_TAP_PORT, pc, lock, main_queue, workers>>

capsVars == <<CAPS_DOWN, CAPS_PRESSED_AT_MS, DID_REMAP>>
configVars == <<ACTION_MAPPINGS, SHELL_MAPPINGS, INPUT_SOURCE_MAPPINGS,
                action_mappings_yml>>

\* Option<T>: None is the empty sequence, Some(x) the sequence holding x
None == << >>
Some(x) == <<x>>
IsSome(o) == o # << >>
Unwrap(o) == o[1]

(***************************************************************************)
(* Bounds of the model.                                                    *)
(***************************************************************************)
\* the clock advances by TickMs at most MaxTicks times
MaxTicks == 2
\* the tables the resolver is applied to hold at most MaxTable entries
MaxTable == 2
\* the clock starts at StartMs and advances by TickMs
StartMs == 1000
TickMs == 200
\* in the thread-level view, the events waiting for the callback together with
\* the workers and main-queue tasks not yet finished number at most
\* MaxOutstanding
MaxOutstanding == 2
\* the files normalize_action_mappings is applied to hold at most MaxVec entries
MaxVec == 3

(***************************************************************************)
(* Program constants.                                                      *)
(***************************************************************************)
INJECTED_EVENT_MAGIC == 1196837966
KC_CAPS_LOCK == 57
KC_F18 == 79
KC_RETURN == 36
KC_DELETE == 51
KC_LEFT == 123
KC_RIGHT == 124
KC_DOWN == 125
KC_UP == 126
CAPS_TAP_MAX_MS == 200

VK_BACK == 8
VK_RETURN == 13
VK_CAPITAL == 20
VK_END == 35
VK_HOME == 36
VK_LEFT == 37
VK_UP == 38
VK_RIGHT == 39
VK_DOWN == 40
VK_LCONTROL == 162
VK_A == 65
VK_D == 68
VK_E == 69
VK_H == 72
VK_I == 73
VK_J == 74
VK_K == 75
VK_L == 76
VK_N == 78
VK_O == 79
VK_P == 80
VK_U == 85
VK_Y == 89
LLKHF_INJECTED == 16

DEFAULT_ABC_KEYCODE == 188
DEFAULT_WECHAT_KEYCODE == 190
JS_H_KEYCODE == 72
JS_J_KEYCODE == 74
JS_K_KEYCODE == 75
JS_L_KEYCODE == 76
JS_P_KEYCODE == 80
JS_Y_KEYCODE == 89
JS_A_KEYCODE == 65
JS_E_KEYCODE == 69
JS_U_KEYCODE == 85
JS_D_KEYCODE == 68
JS_I_KEYCODE == 73
JS_N_KEYCODE == 78
JS_O_KEYCODE == 79
JS_M_KEYCODE == 77

\* strings are sequences of characters
DEFAULT_ABC_INPUT_SOURCE_ID == <<"A", "B", "C">>
DEFAULT_WECHAT_INPUT_SOURCE_ID == <<"w", "e">>

(***************************************************************************)
(* ActionConfig and ActionMappingEntry (lib.rs:48-91).                     *)
(***************************************************************************)
Directional(a) == [kind |-> "directional", action |-> a]
Jump(d, c) == [kind |-> "jump", direction |-> d, count |-> c]
Independent(a) == [kind |-> "independent", action |-> a]
InputSource(id) == [kind |-> "input_source", input_source_id |-> id]
Command(c) == [kind |-> "command", command |-> c]

Entry(k, s, a) == [key |-> k, with_shift |-> s, action |-> a]

default_action_mappings(os) ==
    << Entry(JS_H_KEYCODE, FALSE, Directional("left")),
       Entry(JS_J_KEYCODE, FALSE, Directional("down")),
       Entry(JS_K_KEYCODE, FALSE, Directional("up")),
       Entry(JS_L_KEYCODE, FALSE, Directional("right")),
       Entry(JS_P_KEYCODE, FALSE, Directional("word_forward")),
       Entry(JS_Y_KEYCODE, FALSE, Directional("word_back")),
       Entry(JS_A_KEYCODE, FALSE, Directional("home")),
       Entry(JS_E_KEYCODE, FALSE, Directional("end")),
       Entry(JS_U_KEYCODE, FALSE, Jump("up", 10)),
       Entry(JS_D_KEYCODE, FALSE, Jump("down", 10)),
       Entry(JS_I_KEYCODE, FALSE, Independent("backspace")),
       Entry(JS_N_KEYCODE, FALSE, Independent("insert_quotes")),
       Entry(JS_O_KEYCODE, FALSE, Independent("next_line")) >>
    \o (IF os = "macos"
        THEN << Entry(DEFAULT_ABC_KEYCODE, FALSE, InputSource(DEFAULT_ABC_INPUT_SOURCE_ID)),
                Entry(DEFAULT_WECHAT_KEYCODE, FALSE,
                      InputSource(DEFAULT_WECHAT_INPUT_SOURCE_ID)) >>
        ELSE << >>)

(***************************************************************************)
(* Sequence helpers: Vec::iter().find and loops that repeat a post.       *)
(***************************************************************************)
Range(s) == {s[i] : i \in DOMAIN s}

\* position of the first element satisfying P, 0 when there is none
FindFirst(s, P(_)) ==
    IF \E i \in DOMAIN s : P(s[i])
    THEN CHOOSE i \in DOMAIN s : P(s[i]) /\ \A j \in 1..(i - 1) : ~P(s[j])
    ELSE 0

RECURSIVE Repeat(_, _)
Repeat(s, n) == IF n <= 0 THEN << >> ELSE s \o Repeat(s, n - 1)

(***************************************************************************)
(* Events.  A macOS event carries a CGEventType, a key code, the modifier  *)
(* flags (a set of flag names), the EVENT_SOURCE_USER_DATA field and the   *)
(* unicode string set on it; a Windows event carries the window message,   *)
(* the virtual-key code, the KBDLLHOOKSTRUCT flags (an integer) and        *)
(* dwExtraInfo.  Both are records of the same shape.                       *)
(***************************************************************************)
KeyEvent(t, k, f, u, c) ==
    [type |-> t, keycode |-> k, flags |-> f, user_data |-> u, unicode |-> c]

ModifierMask == {"Shift", "Control", "Alternate", "Command", "SecondaryFn"}

active_modifier_flags_unmasked(flags) == flags

\* hook_macos.rs:353-360
active_modifier_flags(flags) == flags \cap ModifierMask

\* hook_macos.rs:223-265
js_of_mac(mac_keycode) ==
    CASE mac_keycode = 0 -> 65  [] mac_keycode = 11 -> 66 [] mac_keycode = 8 -> 67
      [] mac_keycode = 2 -> 68  [] mac_keycode = 14 -> 69 [] mac_keycode = 3 -> 70
      [] mac_keycode = 5 -> 71  [] mac_keycode = 4 -> 72  [] mac_keycode = 34 -> 73
      [] mac_keycode = 38 -> 74 [] mac_keycode = 40 -> 75 [] mac_keycode = 37 -> 76
      [] mac_keycode = 46 -> 77 [] mac_keycode = 45 -> 78 [] mac_keycode = 31 -> 79
      [] mac_keycode = 35 -> 80 [] mac_keycode = 12 -> 81 [] mac_keycode = 15 -> 82
      [] mac_keycode = 1 -> 83  [] mac_keycode = 17 -> 84 [] mac_keycode = 32 -> 85
      [] mac_keycode = 9 -> 86  [] mac_keycode = 13 -> 87 [] mac_keycode = 7 -> 88
      [] mac_keycode = 16 -> 89 [] mac_keycode = 6 -> 90  [] mac_keycode = 29 -> 48
      [] mac_keycode = 18 -> 49 [] mac_keycode = 19 -> 50 [] mac_keycode = 20 -> 51
      [] mac_keycode = 21 -> 52 [] mac_keycode = 22 -> 53 [] mac_keycode = 23 -> 54
      [] mac_keycode = 24 -> 55 [] mac_keycode = 25 -> 56 [] mac_keycode = 26 -> 57
      [] mac_keycode = 43 -> 188 [] mac_keycode = 47 -> 190
      [] OTHER -> 0

mac_keycode_to_js_keycode(mac_keycode) ==
    IF js_of_mac(mac_keycode) = 0 THEN None ELSE Some(js_of_mac(mac_keycode))

(***************************************************************************)
(* Injection Tagger and the posting primitives (hook_macos.rs:334-351).    *)
(***************************************************************************)
post_key_unstamped(keycode, key_down, flags) ==
    << KeyEvent(IF key_down THEN "KeyDown" ELSE "KeyUp", keycode, flags, 0, 0) >>

post_key(keycode, key_down, flags) ==
    << KeyEvent(IF key_down THEN "KeyDown" ELSE "KeyUp", keycode, flags,
                INJECTED_EVENT_MAGIC, 0) >>

\* a tap that posts the key-down only
post_key_down_only(keycode, flags) == post_key(keycode, TRUE, flags)

\* hook_macos.rs:344-347
post_key_tap(keycode, flags) ==
    post_key(keycode, TRUE, flags) \o post_key(keycode, FALSE, flags)

post_key_simple(keycode, key_down, flags) == post_key(keycode, key_down, flags)

post_quote_with_release ==
    << KeyEvent("KeyDown", 0, {}, INJECTED_EVENT_MAGIC, 34),
       KeyEvent("KeyUp", 0, {}, INJECTED_EVENT_MAGIC, 34) >>

\* hook_macos.rs:444-452: a key-down of key code 0 carrying the string "\""
post_quote == << KeyEvent("KeyDown", 0, {}, INJECTED_EVENT_MAGIC, 34) >>

(***************************************************************************)
(* Action Resolver (hook_macos.rs:362-390).                                *)
(***************************************************************************)
allow_shift_fallback_always(action) == TRUE

allow_shift_fallback(action) == action.kind \notin {"input_source", "command"}

resolve_exact_ignores_shift(guard, js_keycode, shift_held) ==
    IF guard = None THEN None
    ELSE LET mappings == Unwrap(guard)
             i == FindFirst(mappings, LAMBDA m : m.key = js_keycode)
         IN  IF i # 0 THEN Some(mappings[i]) ELSE None

resolve_absent_as_defaults(guard, js_keycode, shift_held) ==
    LET mappings == IF guard = None THEN default_action_mappings("macos") ELSE Unwrap(guard)
        exact == FindFirst(mappings,
                   LAMBDA m : m.key = js_keycode /\ m.with_shift = shift_held)
        fallback == FindFirst(mappings,
                   LAMBDA m : /\ m.key = js_keycode
                              /\ ~m.with_shift
                              /\ allow_shift_fallback(m.action))
    IN  IF exact # 0 THEN Some(mappings[exact])
        ELSE IF shift_held /\ fallback # 0 THEN Some(mappings[fallback])
        ELSE None

\* hook_macos.rs:369-390
resolve_action_mapping(guard, js_keycode, shift_held) ==
    IF guard = None THEN None
    ELSE LET mappings == Unwrap(guard)
             exact == FindFirst(mappings,
                        LAMBDA m : m.key = js_keycode /\ m.with_shift = shift_held)
             fallback == FindFirst(mappings,
                        LAMBDA m : /\ m.key = js_keycode
                                   /\ ~m.with_shift
                                   /\ allow_shift_fallback(m.action))
         IN  IF exact # 0 THEN Some(mappings[exact])
             ELSE IF shift_held /\ fallback # 0 THEN Some(mappings[fallback])
             ELSE None

(***************************************************************************)
(* Action Executor (hook_macos.rs:392-492).  The result lists the events   *)
(* posted, the input-source switches queued on the main queue and the      *)
(* shell commands handed to a spawned thread, in program order.            *)
(***************************************************************************)
Effects(p, q, s) == [posted |-> p, queued |-> q, spawned |-> s]

NoEffects == Effects(<< >>, << >>, << >>)

execute_action_mapping(action, key_down, active_modifiers) ==
    CASE action.kind = "directional" ->
           Effects(
             CASE action.action = "left" -> post_key_simple(KC_LEFT, key_down, active_modifiers)
               [] action.action = "right" -> post_key_simple(KC_RIGHT, key_down, active_modifiers)
               [] action.action = "up" -> post_key_simple(KC_UP, key_down, active_modifiers)
               [] action.action = "down" -> post_key_simple(KC_DOWN, key_down, active_modifiers)
               [] action.action = "word_forward" ->
                    post_key(KC_RIGHT, key_down, active_modifiers \cup {"Alternate"})
               [] action.action = "word_back" ->
                    post_key(KC_LEFT, key_down, active_modifiers \cup {"Alternate"})
               [] action.action = "home" ->
                    post_key(KC_LEFT, key_down, active_modifiers \cup {"Command"})
               [] action.action = "end" ->
                    post_key(KC_RIGHT, key_down, active_modifiers \cup {"Command"}),
             << >>, << >>)
      [] action.kind = "jump" ->
           IF key_down
           THEN Effects(Repeat(post_key_tap(IF action.direction = "up" THEN KC_UP ELSE KC_DOWN,
                                            active_modifiers),
                               action.count),
                        << >>, << >>)
           ELSE NoEffects
      [] action.kind = "independent" ->
          (CASE action.action = "backspace" ->
                  Effects(post_key_simple(KC_DELETE, key_down, active_modifiers), << >>, << >>)
             [] action.action = "next_line" ->
                  IF key_down
                  THEN Effects(post_key_tap(KC_RIGHT, {"Command"}) \o post_key_tap(KC_RETURN, {}),
                               << >>, << >>)
                  ELSE NoEffects
             [] action.action = "insert_quotes" ->
                  IF key_down
                  THEN Effects(Repeat(post_quote, 6) \o Repeat(post_key_tap(KC_LEFT, {}), 3),
                               << >>, << >>)
                  ELSE NoEffects)
      [] action.kind = "input_source" ->
           IF key_down THEN Effects(<< >>, <<action.input_source_id>>, << >>) ELSE NoEffects
      [] action.kind = "command" ->
           IF key_down THEN Effects(<< >>, << >>, <<action.command>>) ELSE NoEffects

handle_caps_remap_any_edge(guard, keycode, key_down, active_modifiers) ==
    LET shift_held == "Shift" \in active_modifiers
        js_keycode == mac_keycode_to_js_keycode(keycode)
        mapping == resolve_action_mapping(guard, Unwrap(js_keycode), shift_held)
    IN  IF js_keycode = None THEN [handled |-> FALSE, effects |-> NoEffects]
        ELSE IF mapping = None THEN [handled |-> FALSE, effects |-> NoEffects]
        ELSE [handled |-> TRUE,
              effects |-> execute_action_mapping(Unwrap(mapping).action, TRUE,
                                                 active_modifiers)]

\* hook_macos.rs:494-506
handle_caps_remap(guard, keycode, key_down, active_modifiers) ==
    LET shift_held == "Shift" \in active_modifiers
        js_keycode == mac_keycode_to_js_keycode(keycode)
        mapping == resolve_action_mapping(guard, Unwrap(js_keycode), shift_held)
    IN  IF js_keycode = None THEN [handled |-> FALSE, effects |-> NoEffects]
        ELSE IF mapping = None THEN [handled |-> FALSE, effects |-> NoEffects]
        ELSE [handled |-> TRUE,
              effects |-> execute_action_mapping(Unwrap(mapping).action, key_down,
                                                 active_modifiers)]

(***************************************************************************)
(* Mapping Store: YAML rendering and parsing (lib.rs:300-398, 484).        *)
(* The document is the sequence of rendered entries; every scalar is kept  *)
(* as the text written (a quoted string is a sequence of characters).      *)
(***************************************************************************)
RECURSIVE yaml_escape(_)
yaml_escape(value) ==
    IF value = << >> THEN << >>
    ELSE (IF Head(value) = "'" THEN <<"'", "'">> ELSE <<Head(value)>>)
         \o yaml_escape(Tail(value))

\* lib.rs:322-324
yaml_quote(value) == <<"'">> \o yaml_escape(value) \o <<"'">>

\* a single-quoted YAML scalar read back: '' is one quote, a line break folds
\* into a space
RECURSIVE yaml_unescape(_)
yaml_unescape(text) ==
    IF text = << >> THEN << >>
    ELSE IF Len(text) >= 2 /\ text[1] = "'" /\ text[2] = "'"
         THEN <<"'">> \o yaml_unescape(Tail(Tail(text)))
    ELSE IF Head(text) = "\n" THEN <<" ">> \o yaml_unescape(Tail(text))
    ELSE <<Head(text)>> \o yaml_unescape(Tail(text))

yaml_unquote(text) == yaml_unescape(SubSeq(text, 2, Len(text) - 1))

render_action(action) ==
    CASE action.kind = "directional" -> [kind |-> "directional", action |-> action.action]
      [] action.kind = "jump" ->
           [kind |-> "jump", direction |-> action.direction, count |-> action.count]
      [] action.kind = "independent" -> [kind |-> "independent", action |-> action.action]
      [] action.kind = "input_source" ->
           [kind |-> "input_source", input_source_id |-> yaml_quote(action.input_source_id)]
      [] action.kind = "command" ->
           [kind |-> "command", command |-> yaml_quote(action.command)]

\* lib.rs:354-398
render_action_mappings_yaml_with_comments(mappings) ==
    [i \in DOMAIN mappings |->
        [key |-> mappings[i].key, with_shift |-> mappings[i].with_shift,
         action |-> render_action(mappings[i].action)]]

parse_action(node) ==
    CASE node.kind = "input_source" -> InputSource(yaml_unquote(node.input_source_id))
      [] node.kind = "command" -> Command(yaml_unquote(node.command))
      [] OTHER -> node

\* serde_yaml::from_str::<Vec<ActionMappingEntry>> (lib.rs:484)
parse_action_mappings_yaml(content) ==
    [i \in DOMAIN content |->
        Entry(content[i].key, content[i].with_shift, parse_action(content[i].action))]

(***************************************************************************)
(* Mapping Store: the table operations (lib.rs:400-461).                   *)
(***************************************************************************)
SamePair(m, entry) == m.key = entry.key /\ m.with_shift = entry.with_shift

\* an upsert that drops the old entry and pushes the new one
upsert_moves_to_end(mappings, entry) ==
    LET kept == SelectSeq(mappings, LAMBDA m : ~SamePair(m, entry))
    IN  [mappings |-> Append(kept, entry),
         changed |-> \A i \in DOMAIN mappings : mappings[i] # entry]

\* lib.rs:400-416: the table after the upsert and the value returned
upsert_action_mapping_in_vec(mappings, entry) ==
    LET i == FindFirst(mappings, LAMBDA m : SamePair(m, entry))
    IN  IF i # 0
        THEN IF mappings[i] # entry
             THEN [mappings |-> [mappings EXCEPT ![i] = entry], changed |-> TRUE]
             ELSE [mappings |-> mappings, changed |-> FALSE]
        ELSE [mappings |-> Append(mappings, entry), changed |-> TRUE]

remove_every_entry_of_key(mappings, key, with_shift) ==
    LET kept == SelectSeq(mappings, LAMBDA m : m.key # key)
    IN  [mappings |-> kept, changed |-> Len(mappings) # Len(kept)]

\* lib.rs:418-426
remove_action_mapping_from_vec(mappings, key, with_shift) ==
    LET kept == SelectSeq(mappings, LAMBDA m : ~(m.key = key /\ m.with_shift = with_shift))
    IN  [mappings |-> kept, changed |-> Len(mappings) # Len(kept)]

\* lib.rs:428-441
RECURSIVE normalize_into(_, _)
normalize_into(deduped, rest) ==
    IF rest = << >> THEN deduped
    ELSE LET entry == Head(rest)
             i == FindFirst(deduped, LAMBDA m : SamePair(m, entry))
         IN  normalize_into(IF i # 0 THEN [deduped EXCEPT ![i] = entry]
                            ELSE Append(deduped, entry),
                            Tail(rest))

normalize_keeps_duplicates(mappings) == mappings

RECURSIVE first_wins_into(_, _)
first_wins_into(deduped, rest) ==
    IF rest = << >> THEN deduped
    ELSE first_wins_into(IF \E m \in Range(deduped) : SamePair(m, Head(rest))
                         THEN deduped ELSE Append(deduped, Head(rest)),
                         Tail(rest))

normalize_first_wins(mappings) == first_wins_into(<< >>, mappings)

normalize_action_mappings(mappings) == normalize_into(<< >>, mappings)

\* HashMap::insert over the entries in table order: the last entry of a key wins
legacy_map(mappings, Selects(_), Value(_)) ==
    LET keys == {m.key : m \in {x \in Range(mappings) : Selects(x)}}
    IN  [k \in keys |->
            LET last == CHOOSE i \in DOMAIN mappings :
                            /\ Selects(mappings[i]) /\ mappings[i].key = k
                            /\ \A j \in (i + 1)..Len(mappings) :
                                   ~(Selects(mappings[j]) /\ mappings[j].key = k)
            IN  Value(mappings[last])]

sync_shell_any_shift(mappings) ==
    legacy_map(mappings, LAMBDA m : m.action.kind = "command", LAMBDA m : m.action.command)

\* lib.rs:443-461
sync_shell(mappings) ==
    legacy_map(mappings, LAMBDA m : m.action.kind = "command" /\ m.with_shift,
               LAMBDA m : m.action.command)

sync_input_sources(mappings) ==
    legacy_map(mappings, LAMBDA m : m.action.kind = "input_source" /\ ~m.with_shift,
               LAMBDA m : m.action.input_source_id)

\* lib.rs:619-622
get_action_mappings == IF IsSome(ACTION_MAPPINGS) THEN Unwrap(ACTION_MAPPINGS) ELSE << >>

\* lib.rs:635-646
get_mappings ==
    legacy_map(get_action_mappings, LAMBDA m : m.action.kind = "command" /\ m.with_shift,
               LAMBDA m : m.action.command)

\* lib.rs:682-693
get_input_source_mappings ==
    legacy_map(get_action_mappings,
               LAMBDA m : m.action.kind = "input_source" /\ ~m.with_shift,
               LAMBDA m : m.action.input_source_id)

(***************************************************************************)
(* Caps State Tracker and Key Event Source, macOS                          *)
(* (hook_macos.rs:657-777, the event tap callback).                        *)
(***************************************************************************)
CallbackResult(cd, pa, dr, v, t, e, r) ==
    [caps_down |-> cd, pressed_at |-> pa, did_remap |-> dr, verdict |-> v,
     toggles |-> t, effects |-> e, remapped |-> r]

PassThrough_resets == CallbackResult(FALSE, 0, FALSE, "pass", 0, NoEffects, FALSE)

PassThrough ==
    CallbackResult(CAPS_DOWN, CAPS_PRESSED_AT_MS, DID_REMAP, "pass", 0, NoEffects, FALSE)

\* hook_macos.rs:690, hook_windows.rs:77: IS_PAUSED.load
is_paused_ignored == FALSE

is_paused == IS_PAUSED

\* hook_macos.rs:683-684
is_injected_mac_never(ev) == FALSE

is_injected_mac(ev) == ev.user_data = INJECTED_EVENT_MAGIC

\* u64::saturating_sub
saturating_sub(a, b) == IF a >= b THEN a - b ELSE 0

\* hook_macos.rs:717
is_tap_strictly_below(held_ms) == held_ms < CAPS_TAP_MAX_MS

is_tap(held_ms) == held_ms <= CAPS_TAP_MAX_MS

\* hook_macos.rs:705-706: the press starts a hold only if Hyper was not down
starts_hold_on_every_down(was_down) == TRUE

starts_hold(was_down) == ~was_down

f18_down_passes_repeat ==
    IF CAPS_DOWN THEN PassThrough
    ELSE CallbackResult(TRUE, now, FALSE, "suppress", 0, NoEffects, FALSE)

\* hook_macos.rs:704-710
f18_down ==
    LET was_down == CAPS_DOWN
    IN  IF starts_hold(was_down)
        THEN CallbackResult(TRUE, now, FALSE, "suppress", 0, NoEffects, FALSE)
        ELSE CallbackResult(TRUE, CAPS_PRESSED_AT_MS, DID_REMAP, "suppress", 0,
                            NoEffects, FALSE)

f18_up_keeps_pressed_at ==
    CallbackResult(FALSE, CAPS_PRESSED_AT_MS, DID_REMAP, "suppress",
                   IF CAPS_DOWN /\ ~DID_REMAP
                      /\ saturating_sub(now, CAPS_PRESSED_AT_MS) <= CAPS_TAP_MAX_MS
                   THEN 1 ELSE 0,
                   NoEffects, FALSE)

\* hook_macos.rs:711-739
f18_up ==
    LET was_down == CAPS_DOWN
        pressed_at_ms == CAPS_PRESSED_AT_MS
        held_ms == saturating_sub(now, pressed_at_ms)
    IN  CallbackResult(FALSE, 0, DID_REMAP, "suppress",
                       IF was_down /\ ~DID_REMAP /\ is_tap(held_ms) THEN 1 ELSE 0,
                       NoEffects, FALSE)

\* hook_macos.rs:754-774
remap_while_held(ev) ==
    LET key_down == ev.type = "KeyDown"
        active_modifiers == active_modifier_flags(ev.flags)
        h == handle_caps_remap(ACTION_MAPPINGS, ev.keycode, key_down, active_modifiers)
    IN  IF h.handled
        THEN CallbackResult(CAPS_DOWN, CAPS_PRESSED_AT_MS, TRUE, "suppress", 0,
                            h.effects, TRUE)
        ELSE PassThrough

reenable_event_tap_unchecked == [ok |-> TRUE, enabled |-> <<EVENT_TAP_PORT>>]

\* hook_macos.rs:74-88: the result, and the handles CGEventTapEnable was
\* called with
reenable_event_tap ==
    IF EVENT_TAP_PORT = 0 THEN [ok |-> FALSE, enabled |-> << >>]
    ELSE [ok |-> TRUE, enabled |-> <<EVENT_TAP_PORT>>]

\* hook_macos.rs:659-660
is_tap_disabled(ev) == ev.type \in {"TapDisabledByTimeout", "TapDisabledByUserInput"}

\* hook_macos.rs:657-776; what the notification branch (659-680) calls is
\* reenable_event_tap, recorded by the step that runs the callback
event_tap_callback(ev) ==
    IF is_tap_disabled(ev) THEN PassThrough
    ELSE IF is_injected_mac(ev) THEN PassThrough
    ELSE IF is_paused THEN PassThrough
    ELSE IF ev.keycode = KC_F18
         THEN IF ev.type = "KeyDown" THEN f18_down
              ELSE IF ev.type = "KeyUp" THEN f18_up
              ELSE CallbackResult(CAPS_DOWN, CAPS_PRESSED_AT_MS, DID_REMAP, "suppress", 0,
                                  NoEffects, FALSE)
    ELSE IF ev.type = "FlagsChanged" /\ ev.keycode = KC_CAPS_LOCK
         THEN CallbackResult(CAPS_DOWN, CAPS_PRESSED_AT_MS, DID_REMAP, "suppress", 0,
                             NoEffects, FALSE)
    ELSE IF CAPS_DOWN THEN remap_while_held(ev)
    ELSE PassThrough

(***************************************************************************)
(* Caps State Tracker and Key Event Source, Windows                        *)
(* (hook_windows.rs:20-229).  SendInput marks what it sends: the hook sees *)
(* those events with LLKHF_INJECTED set.                                   *)
(***************************************************************************)
send_key_always_down(vk, up) ==
    << KeyEvent("WM_KEYDOWN", vk, LLKHF_INJECTED, 0, 0) >>

\* hook_windows.rs:20-40
send_key(vk, up) ==
    << KeyEvent(IF up THEN "WM_KEYUP" ELSE "WM_KEYDOWN", vk, LLKHF_INJECTED, 0, 0) >>

\* hook_windows.rs:42-70
send_unicode(ch) ==
    << KeyEvent("WM_KEYDOWN", 0, LLKHF_INJECTED, 0, ch),
       KeyEvent("WM_KEYUP", 0, LLKHF_INJECTED, 0, ch) >>

\* hook_windows.rs:84
is_injected_win(ev) == (ev.flags \div LLKHF_INJECTED) % 2 # 0

\* hook_windows.rs:85-86
is_up_msg(ev) == ev.type \in {"WM_KEYUP", "WM_SYSKEYUP"}
is_down_msg(ev) == ev.type \in {"WM_KEYDOWN", "WM_SYSKEYDOWN"}

\* hook_windows.rs:99: the tap is injected unless a key was remapped
tap_after_release_if_held(did_remap) == CAPS_DOWN /\ ~did_remap

tap_after_release(did_remap) == ~did_remap

\* hook_windows.rs:92-105
capital_key(ev) ==
    IF is_down_msg(ev)
    THEN CallbackResult(TRUE, CAPS_PRESSED_AT_MS, FALSE, "suppress", 0, NoEffects, FALSE)
    ELSE CallbackResult(FALSE, CAPS_PRESSED_AT_MS, DID_REMAP, "suppress", 0,
                        IF tap_after_release(DID_REMAP)
                        THEN Effects(send_key(VK_CAPITAL, FALSE) \o send_key(VK_CAPITAL, TRUE),
                                     << >>, << >>)
                        ELSE NoEffects,
                        FALSE)

\* hook_windows.rs:110-127
shell_mapping(ev, shift_down) ==
    IF shift_down /\ is_down_msg(ev) /\ IsSome(SHELL_MAPPINGS)
       /\ ev.keycode \in DOMAIN Unwrap(SHELL_MAPPINGS)
    THEN [handled |-> TRUE,
          effects |-> Effects(<< >>, << >>, <<Unwrap(SHELL_MAPPINGS)[ev.keycode]>>)]
    ELSE [handled |-> FALSE, effects |-> NoEffects]

\* hook_windows.rs:129-220
builtin_mapping(ev) ==
    LET vk == ev.keycode
        is_up == is_up_msg(ev)
        is_down == is_down_msg(ev)
        Posts(p) == [handled |-> TRUE, effects |-> Effects(p, << >>, << >>)]
    IN  CASE vk = VK_H -> Posts(send_key(VK_LEFT, is_up))
          [] vk = VK_J -> Posts(send_key(VK_DOWN, is_up))
          [] vk = VK_K -> Posts(send_key(VK_UP, is_up))
          [] vk = VK_L -> Posts(send_key(VK_RIGHT, is_up))
          [] vk = VK_I -> Posts(send_key(VK_BACK, is_up))
          [] vk = VK_N ->
               Posts(IF is_down
                     THEN Repeat(send_unicode(34), 6)
                          \o Repeat(send_key(VK_LEFT, FALSE) \o send_key(VK_LEFT, TRUE), 3)
                     ELSE << >>)
          [] vk = VK_P ->
               Posts(IF is_down
                     THEN send_key(VK_LCONTROL, FALSE) \o send_key(VK_RIGHT, FALSE)
                     ELSE send_key(VK_RIGHT, TRUE) \o send_key(VK_LCONTROL, TRUE))
          [] vk = VK_Y ->
               Posts(IF is_down
                     THEN send_key(VK_LCONTROL, FALSE) \o send_key(VK_LEFT, FALSE)
                     ELSE send_key(VK_LEFT, TRUE) \o send_key(VK_LCONTROL, TRUE))
          [] vk = VK_A -> Posts(send_key(VK_HOME, is_up))
          [] vk = VK_E -> Posts(send_key(VK_END, is_up))
          [] vk = VK_U ->
               Posts(IF is_down
                     THEN Repeat(send_key(VK_UP, FALSE) \o send_key(VK_UP, TRUE), 10)
                     ELSE << >>)
          [] vk = VK_D ->
               Posts(IF is_down
                     THEN Repeat(send_key(VK_DOWN, FALSE) \o send_key(VK_DOWN, TRUE), 10)
                     ELSE << >>)
          [] vk = VK_O ->
               Posts(IF is_down
                     THEN send_key(VK_END, FALSE) \o send_key(VK_END, TRUE)
                          \o send_key(VK_RETURN, FALSE) \o send_key(VK_RETURN, TRUE)
                     ELSE << >>)
          [] OTHER -> [handled |-> FALSE, effects |-> NoEffects]

\* hook_windows.rs:72-229
low_level_keyboard_proc(ev, shift_down) ==
    IF is_paused THEN PassThrough
    ELSE IF is_injected_win(ev) THEN PassThrough
    ELSE IF ev.keycode = VK_CAPITAL /\ (is_down_msg(ev) \/ is_up_msg(ev)) THEN capital_key(ev)
    ELSE IF CAPS_DOWN
         THEN LET shell == shell_mapping(ev, shift_down)
                  h == IF shell.handled THEN shell ELSE builtin_mapping(ev)
              IN  IF h.handled
                  THEN CallbackResult(CAPS_DOWN, CAPS_PRESSED_AT_MS, TRUE, "suppress", 0,
                                      h.effects, TRUE)
                  ELSE PassThrough
    ELSE PassThrough

(***************************************************************************)
(* Inputs of the model.                                                    *)
(***************************************************************************)
CmdLs == <<"l", "s">>
CmdBlank == <<" ">>

\* the persisted file found at startup: none, or one written by an earlier run
InitialFiles ==
    { None,
      Some(render_action_mappings_yaml_with_comments(
             << Entry(JS_H_KEYCODE, FALSE, Directional("right")),
                Entry(JS_H_KEYCODE, TRUE, InputSource(DEFAULT_ABC_INPUT_SOURCE_ID)),
                Entry(JS_M_KEYCODE, FALSE, Command(CmdLs)) >>)) }

\* shell_mappings.json and input_source_mappings.json, as iteration orders
LegacyShellFiles == { << >> }
LegacyInputFiles == { << >> }

UpsertArgs ==
    { Entry(JS_M_KEYCODE, TRUE, Command(CmdLs)),
      Entry(JS_M_KEYCODE, TRUE, Command(CmdBlank)) }

RemoveArgs == { <<JS_H_KEYCODE, FALSE>> }

\* keys other than Hyper: H, M, comma, and the left arrow (no logical key)
MacKeycodes == {4, 46, 43, KC_LEFT}
MacFlagSets == { {}, {"Shift"} }
\* H, M and Z (no built-in mapping)
WinKeycodes == {VK_H, JS_M_KEYCODE, 90}

HyperKeycode == IF platform = "macos" THEN KC_F18 ELSE VK_CAPITAL
DownType == IF platform = "macos" THEN "KeyDown" ELSE "WM_KEYDOWN"
UpType == IF platform = "macos" THEN "KeyUp" ELSE "WM_KEYUP"
NoFlags == IF platform = "macos" THEN {} ELSE 0

\* an event the keyboard produced
Physical(type, keycode, flags) == KeyEvent(type, keycode, flags, 0, 0)

\* an event some process injected, carrying the platform's injection marker
Marked(type, keycode) ==
    IF platform = "macos" THEN KeyEvent(type, keycode, {}, INJECTED_EVENT_MAGIC, 0)
    ELSE KeyEvent(type, keycode, LLKHF_INJECTED, 0, 0)

(***************************************************************************)
(* The state machine.                                                      *)
(***************************************************************************)
\* the handle stored once the tap exists (hook_macos.rs:781-784)
TapPort == 1

Locks == {"ACTION_MAPPINGS", "SHELL_MAPPINGS", "INPUT_SOURCE_MAPPINGS", "LOG_LOCK"}

IdleThreads == [hook |-> [at |-> "idle"], main |-> [at |-> "idle"]]

NoWorkers == [spawning |-> 0, failed |-> 0, logging |-> 0]

\* no callback and no command under way, every mutex free, nothing dispatched
InitSys ==
    /\ EVENT_TAP_PORT = (IF platform = "macos" THEN TapPort ELSE 0)
    /\ pc = IdleThreads
    /\ lock = [l \in Locks |-> "free"]
    /\ main_queue = << >>
    /\ workers = NoWorkers

NoOut == [kind |-> "none"]

\* the physical Hyper key: whether it is down and, while it is, when it was
\* pressed, whether that press was handled un-paused and with CAPS_DOWN false,
\* and whether a key was remapped since
NoHold == [open |-> FALSE, at |-> 0, unpaused |-> FALSE, released |-> FALSE,
           remapped |-> FALSE]

Init ==
    /\ platform \in {"macos", "windows"}
    /\ CAPS_DOWN = FALSE
    /\ CAPS_PRESSED_AT_MS = 0
    /\ DID_REMAP = FALSE
    /\ IS_PAUSED = FALSE
    /\ ACTION_MAPPINGS = None
    /\ SHELL_MAPPINGS = None
    /\ INPUT_SOURCE_MAPPINGS = None
    /\ action_mappings_yml \in InitialFiles
    /\ now = StartMs
    /\ hold = NoHold
    /\ inflight = << >>
    /\ out = NoOut
    /\ InitSys

\* The events a callback posts at the HID tap location come back to the tap
\* ahead of later keyboard input: keyboard events, commands and the clock are
\* taken when no synthetic event waits for re-delivery.  Marked events met in
\* any other state are covered by ExternalInjected.
Quiet == inflight = << >>

\* one run of the hook callback on ev
Hook(ev, shift_down, source, queue, nextHold) ==
    LET r == IF platform = "macos" THEN event_tap_callback(ev)
             ELSE low_level_keyboard_proc(ev, shift_down)
    IN  /\ CAPS_DOWN' = r.caps_down
        /\ CAPS_PRESSED_AT_MS' = r.pressed_at
        /\ DID_REMAP' = r.did_remap
        /\ inflight' = queue \o r.effects.posted
        /\ hold' = [nextHold EXCEPT !.remapped = @ \/ (nextHold.open /\ r.remapped)]
        /\ out' = [kind |-> "hook", source |-> source, ev |-> ev, paused |-> IS_PAUSED,
                   shift |-> shift_down, hold |-> hold,
                   verdict |-> r.verdict, toggles |-> r.toggles,
                   posted |-> r.effects.posted, queued |-> r.effects.queued,
                   spawned |-> r.effects.spawned,
                   reenable |-> IF platform = "macos" /\ is_tap_disabled(ev)
                                THEN <<reenable_event_tap>> ELSE << >>]
        /\ UNCHANGED <<platform, sysVars, IS_PAUSED, configVars, now>>

\* the user presses Hyper
HyperPress ==
    /\ Quiet /\ ~hold.open
    /\ Hook(Physical(DownType, HyperKeycode, NoFlags), FALSE, "physical", inflight,
            [open |-> TRUE, at |-> now, unpaused |-> ~IS_PAUSED, released |-> ~CAPS_DOWN,
             remapped |-> FALSE])

\* the keyboard auto-repeats the key-down while Hyper stays pressed
HyperRepeat ==
    /\ Quiet /\ hold.open
    /\ Hook(Physical(DownType, HyperKeycode, NoFlags), FALSE, "physical", inflight, hold)

\* the user releases Hyper
HyperRelease ==
    /\ Quiet /\ hold.open
    /\ Hook(Physical(UpType, HyperKeycode, NoFlags), FALSE, "physical", inflight,
            NoHold)

\* macOS without the hidutil remap: CapsLock arrives as a FlagsChanged event
RawCapsLock ==
    /\ Quiet /\ platform = "macos"
    /\ Hook(Physical("FlagsChanged", KC_CAPS_LOCK, {"AlphaShift"}), FALSE, "physical",
            inflight, hold)

MacKey ==
    /\ Quiet /\ platform = "macos"
    /\ \E keycode \in MacKeycodes, type \in {"KeyDown", "KeyUp"}, flags \in MacFlagSets :
         Hook(Physical(type, keycode, flags), FALSE, "physical", inflight, hold)

WinKey ==
    /\ Quiet /\ platform = "windows"
    /\ \E vk \in WinKeycodes, type \in {"WM_KEYDOWN", "WM_KEYUP"}, shift_down \in BOOLEAN :
         Hook(Physical(type, vk, 0), shift_down, "physical", inflight, hold)

\* an event that carries the injection marker and was not posted by the executor
ExternalInjected ==
    /\ Quiet
    /\ \E keycode \in {HyperKeycode, IF platform = "macos" THEN 4 ELSE VK_H},
          type \in {DownType, UpType} :
         Hook(Marked(type, keycode), FALSE, "external", inflight, hold)

\* the OS delivers the oldest synthetic event back to the hook
Redeliver ==
    /\ inflight # << >>
    /\ Hook(Head(inflight), FALSE, "redelivered", Tail(inflight), hold)

\* time passes
Tick ==
    /\ Quiet
    /\ now < StartMs + MaxTicks * TickMs
    /\ now' = now + TickMs
    /\ out' = NoOut
    /\ UNCHANGED <<platform, sysVars, capsVars, IS_PAUSED, configVars, hold, inflight>>

(***************************************************************************)
(* Configuration commands (lib.rs:463-717, 859-866).                       *)
(***************************************************************************)
\* str::is_empty without the trim
is_blank_untrimmed(text) == text = << >>

\* str::trim().is_empty()
is_blank(text) == \A i \in DOMAIN text : text[i] \in {" ", "\t", "\n"}

\* lib.rs:578-589
validation_error(action) ==
    \/ action.kind = "command" /\ is_blank(action.command)
    \/ action.kind = "input_source" /\ is_blank(action.input_source_id)
    \/ action.kind = "jump" /\ action.count = 0

\* the table is installed, its caches rebuilt and the file rewritten
Install(mappings, save) ==
    /\ ACTION_MAPPINGS' = Some(mappings)
    /\ SHELL_MAPPINGS' = Some(sync_shell(mappings))
    /\ INPUT_SOURCE_MAPPINGS' = Some(sync_input_sources(mappings))
    /\ action_mappings_yml' =
         IF save THEN Some(render_action_mappings_yaml_with_comments(mappings))
         ELSE action_mappings_yml

\* lib.rs:505-514, 519-528: the legacy entries are upserted one by one
RECURSIVE merge_legacy(_, _)
merge_legacy(acc, entries) ==
    IF entries = << >> THEN acc
    ELSE LET u == upsert_action_mapping_in_vec(acc.mappings, Head(entries))
         IN  merge_legacy([mappings |-> u.mappings, changed |-> acc.changed \/ u.changed],
                          Tail(entries))

\* lib.rs:475-538: the effect of the startup load on the table, its caches and
\* the file, given the two legacy files as lists of (key, text)
load_from(legacy_shell, legacy_input) ==
    LET loaded_from_disk == IsSome(action_mappings_yml)
        parsed == IF loaded_from_disk
                  THEN parse_action_mappings_yaml(Unwrap(action_mappings_yml))
                  ELSE << >>
        start == IF ~loaded_from_disk \/ parsed = << >>
                 THEN [mappings |-> default_action_mappings(platform), changed |-> TRUE]
                 ELSE [mappings |-> parsed, changed |-> FALSE]
        shell == merge_legacy(start,
                   [i \in DOMAIN legacy_shell |->
                       Entry(legacy_shell[i][1], TRUE, Command(legacy_shell[i][2]))])
        input == IF platform = "macos"
                 THEN merge_legacy(shell,
                        [i \in DOMAIN legacy_input |->
                            Entry(legacy_input[i][1], FALSE,
                                  InputSource(legacy_input[i][2]))])
                 ELSE shell
    IN  Install(normalize_action_mappings(input.mappings), input.changed)

\* lib.rs:577-604: the effect of upsert_action_mapping on a loaded table
upsert_entry(entry) ==
    IF validation_error(entry.action)
    THEN UNCHANGED configVars
    ELSE Install(normalize_action_mappings(
                   upsert_action_mapping_in_vec(Unwrap(ACTION_MAPPINGS), entry).mappings),
                 TRUE)

\* lib.rs:608-616: the effect of remove_action_mapping on a loaded table
remove_entry(key, with_shift) ==
    Install(remove_action_mapping_from_vec(Unwrap(ACTION_MAPPINGS), key, with_shift).mappings,
            TRUE)

\* lib.rs:475-538, run once by setup (lib.rs:751)
load_action_mappings_from_disk ==
    /\ Quiet /\ ACTION_MAPPINGS = None
    /\ \E legacy_shell \in LegacyShellFiles, legacy_input \in LegacyInputFiles :
         load_from(legacy_shell, legacy_input)
    /\ out' = NoOut
    /\ UNCHANGED <<platform, sysVars, capsVars, IS_PAUSED, now, hold, inflight>>

\* lib.rs:571-605.  Commands come from the window, which exists once setup has
\* loaded the table (lib.rs:750-751).
upsert_action_mapping ==
    /\ Quiet /\ IsSome(ACTION_MAPPINGS)
    /\ \E entry \in UpsertArgs : upsert_entry(entry)
    /\ out' = NoOut
    /\ UNCHANGED <<platform, sysVars, capsVars, IS_PAUSED, now, hold, inflight>>

\* lib.rs:607-617
remove_action_mapping ==
    /\ Quiet /\ IsSome(ACTION_MAPPINGS)
    /\ \E arg \in RemoveArgs : remove_entry(arg[1], arg[2])
    /\ out' = NoOut
    /\ UNCHANGED <<platform, sysVars, capsVars, IS_PAUSED, now, hold, inflight>>

\* lib.rs:624-633, 648-680: the legacy commands, which call
\* upsert_action_mapping and remove_action_mapping: add_mapping,
\* remove_mapping, add_input_source_mapping with a blank id (rejected) and
\* remove_input_source_mapping of a key that may hold no input source
legacy_api_wrappers ==
    /\ Quiet /\ IsSome(ACTION_MAPPINGS)
    /\ \/ upsert_entry(Entry(JS_M_KEYCODE, TRUE, Command(CmdLs)))
       \/ remove_entry(JS_M_KEYCODE, TRUE)
       \/ upsert_entry(Entry(JS_H_KEYCODE, FALSE, InputSource(CmdBlank)))
       \/ IF \E m \in Range(Unwrap(ACTION_MAPPINGS)) :
                 m.key = JS_H_KEYCODE /\ ~m.with_shift /\ m.action.kind = "input_source"
          THEN remove_entry(JS_H_KEYCODE, FALSE)
          ELSE UNCHANGED configVars
    /\ out' = NoOut
    /\ UNCHANGED <<platform, sysVars, capsVars, IS_PAUSED, now, hold, inflight>>

set_paused_clears_held ==
    /\ Quiet
    /\ \E paused \in BOOLEAN : IS_PAUSED' = paused
    /\ CAPS_DOWN' = FALSE /\ DID_REMAP' = FALSE
    /\ out' = NoOut
    /\ UNCHANGED <<platform, sysVars, CAPS_PRESSED_AT_MS, configVars, now, hold, inflight>>

get_status_always_running == "Running"

\* lib.rs:695-702
get_status == IF IS_PAUSED THEN "Paused" ELSE "Running"

\* lib.rs:704-717
set_paused ==
    /\ Quiet
    /\ \E paused \in BOOLEAN : IS_PAUSED' = paused
    /\ out' = NoOut
    /\ UNCHANGED <<platform, sysVars, capsVars, configVars, now, hold, inflight>>

\* lib.rs:859-866
tray_toggle ==
    /\ Quiet
    /\ IS_PAUSED' = ~IS_PAUSED
    /\ out' = NoOut
    /\ UNCHANGED <<platform, sysVars, capsVars, configVars, now, hold, inflight>>

Next ==
    \/ HyperPress \/ HyperRepeat \/ HyperRelease \/ RawCapsLock
    \/ MacKey \/ WinKey \/ ExternalInjected \/ Redeliver \/ Tick
    \/ load_action_mappings_from_disk \/ upsert_action_mapping \/ remove_action_mapping
    \/ legacy_api_wrappers
    \/ set_paused \/ tray_toggle

Spec == Init /\ [][Next]_vars

(***************************************************************************)
(* The Mapping Store on its own: the startup load and the configuration    *)
(* commands, the legacy wrappers included (lib.rs:475-538, 571-680), with  *)
(* wider inputs.  The hook callbacks never write the table, its caches or  *)
(* the file, and the commands never write CapsState.                       *)
(***************************************************************************)
\* persisted files: none, one written by the program, and two edited by hand
\* (a repeated (key, with_shift) pair; a Jump with count 0 and a blank command)
ConfigFiles ==
    InitialFiles
    \cup { Some(render_action_mappings_yaml_with_comments(
                  << Entry(JS_H_KEYCODE, FALSE, Directional("right")),
                     Entry(JS_M_KEYCODE, TRUE, Command(CmdLs)),
                     Entry(JS_H_KEYCODE, FALSE, Directional("left")) >>)),
           Some(render_action_mappings_yaml_with_comments(
                  << Entry(JS_H_KEYCODE, FALSE, Jump("down", 0)),
                     Entry(JS_M_KEYCODE, TRUE, Command(CmdBlank)) >>)) }

ConfigLegacyShellFiles == { << >>, << <<JS_M_KEYCODE, CmdLs>>, <<JS_H_KEYCODE, CmdLs>> >> }
ConfigLegacyInputFiles ==
    { << >>, << <<DEFAULT_ABC_KEYCODE, DEFAULT_WECHAT_INPUT_SOURCE_ID>> >> }

ConfigUpsertArgs ==
    UpsertArgs
    \cup { Entry(JS_H_KEYCODE, FALSE, Jump("down", 0)),
           Entry(JS_H_KEYCODE, FALSE, Jump("up", 2)),
           Entry(JS_M_KEYCODE, FALSE, Command(<< >>)),
           Entry(DEFAULT_ABC_KEYCODE, FALSE, InputSource(<< >>)) }

ConfigRemoveArgs == RemoveArgs \cup { <<JS_M_KEYCODE, TRUE>> }
AddMappingArgs == { <<JS_M_KEYCODE, CmdLs>>, <<JS_M_KEYCODE, CmdBlank>> }
RemoveMappingArgs == { JS_M_KEYCODE, JS_H_KEYCODE }
AddInputSourceArgs ==
    { <<JS_H_KEYCODE, DEFAULT_ABC_INPUT_SOURCE_ID>>, <<JS_H_KEYCODE, CmdBlank>> }
RemoveInputSourceArgs == { JS_H_KEYCODE, DEFAULT_ABC_KEYCODE }

InitConfig ==
    /\ platform \in {"macos", "windows"}
    /\ CAPS_DOWN = FALSE
    /\ CAPS_PRESSED_AT_MS = 0
    /\ DID_REMAP = FALSE
    /\ IS_PAUSED = FALSE
    /\ ACTION_MAPPINGS = None
    /\ SHELL_MAPPINGS = None
    /\ INPUT_SOURCE_MAPPINGS = None
    /\ action_mappings_yml \in ConfigFiles
    /\ now = StartMs
    /\ hold = NoHold
    /\ inflight = << >>
    /\ out = NoOut
    /\ InitSys

\* what a command leaves alone
ConfigFrame == UNCHANGED <<platform, sysVars, capsVars, IS_PAUSED, now, hold, inflight>>

\* the Result<(), String> of upsert_action_mapping (lib.rs:578-589, 604)
upsert_result(entry) == IF validation_error(entry.action) THEN "err" ELSE "ok"

ConfigLoad ==
    /\ ACTION_MAPPINGS = None
    /\ \E legacy_shell \in ConfigLegacyShellFiles, legacy_input \in ConfigLegacyInputFiles :
         load_from(legacy_shell, legacy_input)
    /\ out' = [kind |-> "load", file |-> action_mappings_yml]
    /\ ConfigFrame

ConfigUpsert ==
    /\ IsSome(ACTION_MAPPINGS)
    /\ \E entry \in ConfigUpsertArgs :
         /\ upsert_entry(entry)
         /\ out' = [kind |-> "upsert", entry |-> entry, result |-> upsert_result(entry)]
    /\ ConfigFrame

ConfigRemove ==
    /\ IsSome(ACTION_MAPPINGS)
    /\ \E arg \in ConfigRemoveArgs :
         /\ remove_entry(arg[1], arg[2])
         /\ out' = [kind |-> "remove", command |-> "remove_action_mapping",
                    key |-> arg[1], with_shift |-> arg[2],
                    removed |-> remove_action_mapping_from_vec(
                                    Unwrap(ACTION_MAPPINGS), arg[1], arg[2]).changed]
    /\ ConfigFrame

\* lib.rs:625-628
add_mapping ==
    /\ IsSome(ACTION_MAPPINGS)
    /\ \E arg \in AddMappingArgs :
         LET entry == Entry(arg[1], TRUE, Command(arg[2]))
         IN  /\ upsert_entry(entry)
             /\ out' = [kind |-> "upsert", entry |-> entry, result |-> upsert_result(entry)]
    /\ ConfigFrame

\* lib.rs:630-633
remove_mapping ==
    /\ IsSome(ACTION_MAPPINGS)
    /\ \E key \in RemoveMappingArgs :
         /\ remove_entry(key, TRUE)
         /\ out' = [kind |-> "remove", command |-> "remove_mapping",
                    key |-> key, with_shift |-> TRUE]
    /\ ConfigFrame

\* lib.rs:648-660
add_input_source_mapping ==
    /\ IsSome(ACTION_MAPPINGS)
    /\ \E arg \in AddInputSourceArgs :
         LET entry == Entry(arg[1], FALSE, InputSource(arg[2]))
         IN  /\ upsert_entry(entry)
             /\ out' = [kind |-> "upsert", entry |-> entry, result |-> upsert_result(entry)]
    /\ ConfigFrame

\* lib.rs:662-680
remove_input_source_mapping ==
    /\ IsSome(ACTION_MAPPINGS)
    /\ \E key \in RemoveInputSourceArgs :
         LET should_remove ==
                 \E m \in Range(Unwrap(ACTION_MAPPINGS)) :
                     m.key = key /\ ~m.with_shift /\ m.action.kind = "input_source"
         IN  /\ IF should_remove THEN remove_entry(key, FALSE) ELSE UNCHANGED configVars
             /\ out' = [kind |-> "remove", command |-> "remove_input_source_mapping",
                        key |-> key, with_shift |-> FALSE]
    /\ ConfigFrame

NextConfig ==
    \/ ConfigLoad \/ ConfigUpsert \/ ConfigRemove
    \/ add_mapping \/ remove_mapping
    \/ add_input_source_mapping \/ remove_input_source_mapping

SpecConfig == InitConfig /\ [][NextConfig]_vars

(***************************************************************************)
(* The resolver as a function of the table: every table of at most         *)
(* MaxTable entries with one entry per (key, with_shift), every key and    *)
(* both shift states.                                                      *)
(***************************************************************************)
ResolverKeys == {JS_H_KEYCODE, DEFAULT_ABC_KEYCODE}

ResolverActions ==
    { Directional("left"), Jump("down", 10), InputSource(DEFAULT_ABC_INPUT_SOURCE_ID),
      Command(CmdLs) }

ResolverEntries ==
    { Entry(k, s, a) : k \in ResolverKeys, s \in BOOLEAN, a \in ResolverActions }

UniquePairs(mappings) ==
    \A i, j \in DOMAIN mappings :
        i # j => ~SamePair(mappings[i], mappings[j])

ResolverTables ==
    { t \in UNION { [1..n -> ResolverEntries] : n \in 0..MaxTable } : UniquePairs(t) }

InitResolver ==
    /\ platform = "macos"
    /\ CAPS_DOWN = FALSE
    /\ CAPS_PRESSED_AT_MS = 0
    /\ DID_REMAP = FALSE
    /\ IS_PAUSED = FALSE
    /\ ACTION_MAPPINGS \in {None} \cup { Some(t) : t \in ResolverTables }
    /\ SHELL_MAPPINGS = None
    /\ INPUT_SOURCE_MAPPINGS = None
    /\ action_mappings_yml = None
    /\ now = StartMs
    /\ hold = NoHold
    /\ inflight = << >>
    /\ out = NoOut
    /\ InitSys

Resolve ==
    /\ \E js_keycode \in ResolverKeys \cup {JS_M_KEYCODE}, shift_held \in BOOLEAN :
         out' = [kind |-> "resolve", key |-> js_keycode, shift_held |-> shift_held,
                 result |-> resolve_action_mapping(ACTION_MAPPINGS, js_keycode, shift_held)]
    /\ UNCHANGED <<platform, sysVars, capsVars, IS_PAUSED, configVars, now, hold, inflight>>

SpecResolver == InitResolver /\ [][Resolve]_vars

(***************************************************************************)
(* upsert_action_mapping_in_vec as a function of the table and the entry:  *)
(* every table above, every entry, the call and the same call once more.   *)
(***************************************************************************)
UpsertInVec ==
    /\ IsSome(ACTION_MAPPINGS)
    /\ \E entry \in ResolverEntries :
         LET first == upsert_action_mapping_in_vec(Unwrap(ACTION_MAPPINGS), entry)
         IN  out' = [kind |-> "upsert_in_vec", entry |-> entry, result |-> first,
                     again |-> upsert_action_mapping_in_vec(first.mappings, entry)]
    /\ UNCHANGED <<platform, sysVars, capsVars, IS_PAUSED, configVars, now, hold, inflight>>

SpecTable == InitResolver /\ [][UpsertInVec]_vars

(***************************************************************************)
(* The Action Executor as a function of the action, the edge and the       *)
(* active modifiers (hook_macos.rs:392-492).                               *)
(***************************************************************************)
JumpCounts == {1, 2, 10}

ExecutorActions ==
    { Directional(a) : a \in {"left", "right", "up", "down", "word_forward", "word_back",
                               "home", "end"} }
    \cup { Jump(d, c) : d \in {"up", "down"}, c \in JumpCounts }
    \cup { Independent(a) : a \in {"backspace", "next_line", "insert_quotes"} }
    \cup { InputSource(DEFAULT_ABC_INPUT_SOURCE_ID), Command(CmdLs) }

\* Event flags of the triggering key; AlphaShift is a flag outside the
\* modifier mask of hook_macos.rs:353-360.
ExecutorFlags == SUBSET {"Shift", "Control", "AlphaShift"}

\* The keys of the fixed match of hook_windows.rs:129-220 and one outside it.
BuiltinKeys ==
    {VK_H, VK_J, VK_K, VK_L, VK_I, VK_N, VK_P, VK_Y, VK_A, VK_E, VK_U, VK_D, VK_O, 90}

InitExecutor ==
    /\ platform \in {"macos", "windows"}
    /\ CAPS_DOWN = TRUE
    /\ CAPS_PRESSED_AT_MS = StartMs
    /\ DID_REMAP = FALSE
    /\ IS_PAUSED = FALSE
    /\ ACTION_MAPPINGS = None
    /\ SHELL_MAPPINGS = None
    /\ INPUT_SOURCE_MAPPINGS = None
    /\ action_mappings_yml = None
    /\ now = StartMs
    /\ hold = NoHold
    /\ inflight = << >>
    /\ out = NoOut
    /\ InitSys

\* hook_macos.rs:762-770 hands the event's edge and its masked flags to the
\* executor.
Execute ==
    /\ platform = "macos"
    /\ \E action \in ExecutorActions, key_down \in BOOLEAN, flags \in ExecutorFlags :
         LET active_modifiers == active_modifier_flags(flags)
         IN  out' = [kind |-> "execute", action |-> action, key_down |-> key_down,
                     flags |-> flags, active_modifiers |-> active_modifiers,
                     effects |-> execute_action_mapping(action, key_down, active_modifiers)]
    /\ UNCHANGED <<platform, sysVars, capsVars, IS_PAUSED, configVars, now, hold, inflight>>

\* hook_windows.rs:129-220 applied to one key event while CapsLock is held.
ExecuteBuiltin ==
    /\ platform = "windows"
    /\ \E vk \in BuiltinKeys, type \in {"WM_KEYDOWN", "WM_KEYUP", "WM_SYSKEYDOWN", "WM_SYSKEYUP"} :
         LET ev == KeyEvent(type, vk, 0, 0, 0)
         IN  out' = [kind |-> "builtin", ev |-> ev, result |-> builtin_mapping(ev)]
    /\ UNCHANGED <<platform, sysVars, capsVars, IS_PAUSED, configVars, now, hold, inflight>>

NextExecutor == Execute \/ ExecuteBuiltin

SpecExecutor == InitExecutor /\ [][NextExecutor]_vars

(***************************************************************************)
(* The engine status commands and the tap-disabled notification, with the  *)
(* results they return, next to the hook (lib.rs:695-717,                  *)
(* hook_macos.rs:74-88, 659-680).  EVENT_TAP_PORT is 0 until the tap is    *)
(* stored (hook_macos.rs:37, 781) and after a failed creation (795).       *)
(***************************************************************************)
InitEngine ==
    /\ platform \in {"macos", "windows"}
    /\ CAPS_DOWN = FALSE
    /\ CAPS_PRESSED_AT_MS = 0
    /\ DID_REMAP = FALSE
    /\ IS_PAUSED = FALSE
    /\ ACTION_MAPPINGS = None
    /\ SHELL_MAPPINGS = None
    /\ INPUT_SOURCE_MAPPINGS = None
    /\ action_mappings_yml = None
    /\ now = StartMs
    /\ hold = NoHold
    /\ inflight = << >>
    /\ out = NoOut
    /\ EVENT_TAP_PORT \in (IF platform = "macos" THEN {0, TapPort} ELSE {0})
    /\ pc = IdleThreads
    /\ lock = [l \in Locks |-> "free"]
    /\ main_queue = << >>
    /\ workers = NoWorkers

\* lib.rs:695-702
GetStatus ==
    /\ Quiet
    /\ out' = [kind |-> "get_status", result |-> get_status]
    /\ UNCHANGED <<platform, sysVars, capsVars, IS_PAUSED, configVars, now, hold, inflight>>

\* lib.rs:704-717: the store, then the status read back
SetPaused ==
    /\ Quiet
    /\ \E paused \in BOOLEAN :
         /\ IS_PAUSED' = paused
         /\ out' = [kind |-> "set_paused", paused |-> paused, result |-> get_status']
    /\ UNCHANGED <<platform, sysVars, capsVars, configVars, now, hold, inflight>>

\* hook_macos.rs:659-680: macOS tells the callback that it disabled the tap
TapDisabled ==
    /\ Quiet /\ platform = "macos"
    /\ \E type \in {"TapDisabledByTimeout", "TapDisabledByUserInput"} :
         Hook(KeyEvent(type, 0, {}, 0, 0), FALSE, "system", inflight, hold)

NextEngine ==
    \/ load_action_mappings_from_disk
    \/ HyperPress \/ HyperRelease \/ MacKey \/ WinKey \/ Redeliver
    \/ GetStatus \/ SetPaused \/ TapDisabled

SpecEngine == InitEngine /\ [][NextEngine]_vars

(***************************************************************************)
(* The threads and their locks, macOS.  The hook thread runs the callback  *)
(* on the events queued for the tap while Hyper is held; the main thread   *)
(* runs the configuration commands and the input-source switches queued on *)
(* the main dispatch queue; every shell command has a worker thread.  A    *)
(* callback or a command is a sequence of steps, one per lock operation,   *)
(* in-memory operation or file operation.                                  *)
(***************************************************************************)
ThreadsTable ==
    << Entry(JS_H_KEYCODE, FALSE, Directional("right")),
       Entry(JS_H_KEYCODE, TRUE, InputSource(DEFAULT_ABC_INPUT_SOURCE_ID)),
       Entry(JS_M_KEYCODE, FALSE, Command(CmdLs)) >>

ThreadsCommands ==
    { [op |-> "upsert", entry |-> e] : e \in UpsertArgs }
    \cup { [op |-> "remove", key |-> JS_M_KEYCODE, with_shift |-> TRUE] }

\* the table is loaded and Hyper is held
InitThreads ==
    /\ platform = "macos"
    /\ CAPS_DOWN = TRUE
    /\ CAPS_PRESSED_AT_MS = StartMs
    /\ DID_REMAP = FALSE
    /\ IS_PAUSED = FALSE
    /\ ACTION_MAPPINGS = Some(ThreadsTable)
    /\ SHELL_MAPPINGS = Some(sync_shell(ThreadsTable))
    /\ INPUT_SOURCE_MAPPINGS = Some(sync_input_sources(ThreadsTable))
    /\ action_mappings_yml = Some(render_action_mappings_yaml_with_comments(ThreadsTable))
    /\ now = StartMs
    /\ hold = [open |-> TRUE, at |-> StartMs, unpaused |-> TRUE, released |-> TRUE,
               remapped |-> FALSE]
    /\ inflight = << >>
    /\ out = NoOut
    /\ InitSys

At(t, label) == pc[t].at = label

Goto(t, state) == pc' = [pc EXCEPT ![t] = state]

\* Mutex::lock: the caller waits until the mutex is free
Acquire(l, t) == lock[l] = "free" /\ lock' = [lock EXCEPT ![l] = t]

Release(l) == lock' = [lock EXCEPT ![l] = "free"]

\* workers and main-queue tasks dispatched and not yet finished
Outstanding ==
    workers.spawning + workers.failed + workers.logging + Len(main_queue)
    + (IF At("main", "switching") THEN 1 ELSE 0)

awaits_dispatch_joined == TRUE

\* hook_macos.rs:216, 479: dispatch_async_f returns at once and the JoinHandle
\* of thread::spawn is dropped; the callback does not wait for what it
\* dispatched
awaits_dispatch == FALSE

\* key-downs of H (a Directional), Shift+H (an InputSource) and M (a Command)
ThreadsEvents ==
    { Physical("KeyDown", 4, {}), Physical("KeyDown", 4, {"Shift"}),
      Physical("KeyDown", 46, {}) }

\* the keyboard produces an event
KeyArrives ==
    /\ Len(inflight) + Outstanding < MaxOutstanding
    /\ \E ev \in ThreadsEvents : inflight' = Append(inflight, ev)
    /\ UNCHANGED <<platform, sysVars, capsVars, IS_PAUSED, configVars, now, hold, out>>

\* hook_macos.rs:657-762: the callback starts on the oldest event and either
\* decides without the table or goes on to resolve_action_mapping
HookBegin ==
    /\ At("hook", "idle") /\ inflight # << >>
    /\ LET ev == Head(inflight)
           needs_table ==
               /\ ~is_tap_disabled(ev) /\ ~is_injected_mac(ev) /\ ~is_paused
               /\ ev.keycode # KC_F18
               /\ ~(ev.type = "FlagsChanged" /\ ev.keycode = KC_CAPS_LOCK)
               /\ CAPS_DOWN /\ mac_keycode_to_js_keycode(ev.keycode) # None
       IN  IF needs_table
           THEN Goto("hook", [at |-> "resolve_lock", ev |-> ev])
           ELSE Goto("hook", [at |-> "return", ev |-> ev, r |-> event_tap_callback(ev)])
    /\ UNCHANGED <<platform, EVENT_TAP_PORT, lock, main_queue, workers, capsVars, IS_PAUSED,
                   configVars, now, hold, inflight, out>>

\* hook_macos.rs:370
HookLockTable ==
    /\ At("hook", "resolve_lock")
    /\ Acquire("ACTION_MAPPINGS", "hook")
    /\ Goto("hook", [pc.hook EXCEPT !.at = "resolve"])
    /\ UNCHANGED <<platform, EVENT_TAP_PORT, main_queue, workers, capsVars, IS_PAUSED,
                   configVars, now, hold, inflight, out>>

\* hook_macos.rs:371-390: the lookup on the locked table; the entry found is
\* cloned and the guard dropped on return
HookResolve ==
    /\ At("hook", "resolve")
    /\ Release("ACTION_MAPPINGS")
    /\ Goto("hook", [at |-> "dispatch", ev |-> pc.hook.ev,
                     r |-> event_tap_callback(pc.hook.ev)])
    /\ UNCHANGED <<platform, EVENT_TAP_PORT, main_queue, workers, capsVars, IS_PAUSED,
                   configVars, now, hold, inflight, out>>

\* hook_macos.rs:392-492, 762: execute_action_mapping posts events, queues the
\* switch on the main queue and spawns the worker; a handled key-down is
\* logged (763-770)
HookDispatch ==
    /\ At("hook", "dispatch")
    /\ LET r == pc.hook.r
       IN  /\ inflight' = inflight \o r.effects.posted
           /\ main_queue' = main_queue \o r.effects.queued
           /\ workers' = [workers EXCEPT !.spawning = @ + Len(r.effects.spawned)]
           /\ Goto("hook", [pc.hook EXCEPT !.at =
                               IF r.verdict = "suppress" /\ pc.hook.ev.type = "KeyDown"
                               THEN "log_lock" ELSE "return"])
    /\ UNCHANGED <<platform, EVENT_TAP_PORT, lock, capsVars, IS_PAUSED, configVars, now, hold,
                   out>>

\* hook_macos.rs:54-55: log_macos takes LOG_LOCK
LogLock(t) ==
    /\ At(t, "log_lock")
    /\ Acquire("LOG_LOCK", t)
    /\ Goto(t, [pc[t] EXCEPT !.at = "log_write"])
    /\ UNCHANGED <<platform, EVENT_TAP_PORT, main_queue, workers, capsVars, IS_PAUSED,
                   configVars, now, hold, inflight, out>>

\* hook_macos.rs:56-64: the line is appended to the log file and the guard
\* dropped; the callback goes on to return, the main-queue task is over
LogWrite(t) ==
    /\ At(t, "log_write")
    /\ Release("LOG_LOCK")
    /\ Goto(t, IF t = "hook" THEN [pc[t] EXCEPT !.at = "return"] ELSE [at |-> "idle"])
    /\ UNCHANGED <<platform, EVENT_TAP_PORT, main_queue, workers, capsVars, IS_PAUSED,
                   configVars, now, hold, inflight, out>>

\* hook_macos.rs:680-776: the callback stores CapsState and returns its
\* verdict for the event
HookReturn ==
    /\ At("hook", "return")
    /\ awaits_dispatch => Outstanding = 0
    /\ LET r == pc.hook.r
       IN  /\ CAPS_DOWN' = r.caps_down
           /\ CAPS_PRESSED_AT_MS' = r.pressed_at
           /\ DID_REMAP' = r.did_remap
           /\ out' = [kind |-> "verdict", ev |-> pc.hook.ev, verdict |-> r.verdict]
    /\ inflight' = Tail(inflight)
    /\ Goto("hook", [at |-> "idle"])
    /\ UNCHANGED <<platform, EVENT_TAP_PORT, lock, main_queue, workers, IS_PAUSED, configVars,
                   now, hold>>

HookThread ==
    HookBegin \/ HookLockTable \/ HookResolve \/ HookDispatch
    \/ LogLock("hook") \/ LogWrite("hook") \/ HookReturn

\* hook_macos.rs:168-170: the main queue starts the oldest queued switch
MainRunTask ==
    /\ At("main", "idle") /\ main_queue # << >>
    /\ main_queue' = Tail(main_queue)
    /\ Goto("main", [at |-> "switching", source_id |-> Head(main_queue)])
    /\ UNCHANGED <<platform, EVENT_TAP_PORT, lock, workers, capsVars, IS_PAUSED, configVars,
                   now, hold, inflight, out>>

\* hook_macos.rs:90-166, 172-201: switch_input_source_by_id returns Ok or Err,
\* or panics, and the outcome is logged; it may also never return
TaskCompletes ==
    /\ At("main", "switching")
    /\ Goto("main", [at |-> "log_lock"])
    /\ UNCHANGED <<platform, EVENT_TAP_PORT, lock, main_queue, workers, capsVars, IS_PAUSED,
                   configVars, now, hold, inflight, out>>

\* lib.rs:577-592, 608-610: a command starts on the main thread; an invalid
\* upsert returns Err at once
CmdStart ==
    /\ At("main", "idle")
    /\ \E cmd \in ThreadsCommands :
         IF cmd.op = "upsert" /\ validation_error(cmd.entry.action)
         THEN UNCHANGED pc
         ELSE Goto("main", [at |-> "lock_table", cmd |-> cmd])
    /\ out' = NoOut
    /\ UNCHANGED <<platform, EVENT_TAP_PORT, lock, main_queue, workers, capsVars, IS_PAUSED,
                   configVars, now, hold, inflight>>

\* lib.rs:592, 610
CmdLockTable ==
    /\ At("main", "lock_table")
    /\ Acquire("ACTION_MAPPINGS", "main")
    /\ Goto("main", [pc.main EXCEPT !.at = "mutate"])
    /\ UNCHANGED <<platform, EVENT_TAP_PORT, main_queue, workers, capsVars, IS_PAUSED,
                   configVars, now, hold, inflight, out>>

\* lib.rs:593-600, 611-612: the table is changed in memory
CmdMutate ==
    /\ At("main", "mutate")
    /\ LET cmd == pc.main.cmd
           mappings == Unwrap(ACTION_MAPPINGS)
       IN  ACTION_MAPPINGS' =
             Some(IF cmd.op = "upsert"
                  THEN normalize_action_mappings(
                         upsert_action_mapping_in_vec(mappings, cmd.entry).mappings)
                  ELSE remove_action_mapping_from_vec(mappings, cmd.key,
                                                      cmd.with_shift).mappings)
    /\ Goto("main", [pc.main EXCEPT !.at = "sync_shell"])
    /\ UNCHANGED <<platform, EVENT_TAP_PORT, lock, main_queue, workers, capsVars, IS_PAUSED,
                   SHELL_MAPPINGS, INPUT_SOURCE_MAPPINGS, action_mappings_yml, now, hold,
                   inflight, out>>

\* lib.rs:459, called at 601 and 613 inside the block that holds the table's
\* guard: SHELL_MAPPINGS is locked, assigned and unlocked
CmdSyncShell ==
    /\ At("main", "sync_shell")
    /\ lock["SHELL_MAPPINGS"] = "free"
    /\ SHELL_MAPPINGS' = Some(sync_shell(Unwrap(ACTION_MAPPINGS)))
    /\ Goto("main", [pc.main EXCEPT !.at = "sync_input"])
    /\ UNCHANGED <<platform, EVENT_TAP_PORT, lock, main_queue, workers, capsVars, IS_PAUSED,
                   ACTION_MAPPINGS, INPUT_SOURCE_MAPPINGS, action_mappings_yml, now, hold,
                   inflight, out>>

CmdSyncInput_saves_under_guard ==
    /\ At("main", "sync_input")
    /\ lock["INPUT_SOURCE_MAPPINGS"] = "free"
    /\ INPUT_SOURCE_MAPPINGS' = Some(sync_input_sources(Unwrap(ACTION_MAPPINGS)))
    /\ Goto("main", [pc.main EXCEPT !.at = "save_lock"])
    /\ UNCHANGED <<platform, EVENT_TAP_PORT, lock, main_queue, workers, capsVars, IS_PAUSED,
                   ACTION_MAPPINGS, SHELL_MAPPINGS, action_mappings_yml, now, hold, inflight,
                   out>>

\* lib.rs:460, then 603 and 615: INPUT_SOURCE_MAPPINGS is locked, assigned and
\* unlocked, and the block ends, dropping the table's guard
CmdSyncInput ==
    /\ At("main", "sync_input")
    /\ lock["INPUT_SOURCE_MAPPINGS"] = "free"
    /\ INPUT_SOURCE_MAPPINGS' = Some(sync_input_sources(Unwrap(ACTION_MAPPINGS)))
    /\ Release("ACTION_MAPPINGS")
    /\ Goto("main", [pc.main EXCEPT !.at = "save_lock"])
    /\ UNCHANGED <<platform, EVENT_TAP_PORT, main_queue, workers, capsVars, IS_PAUSED,
                   ACTION_MAPPINGS, SHELL_MAPPINGS, action_mappings_yml, now, hold, inflight,
                   out>>

\* lib.rs:465: save_action_mappings_to_disk locks the table; the guard is a
\* temporary of the `if let` and lives to the end of its block
CmdSaveLock ==
    /\ At("main", "save_lock")
    /\ Acquire("ACTION_MAPPINGS", "main")
    /\ Goto("main", [pc.main EXCEPT !.at = "save_write"])
    /\ UNCHANGED <<platform, EVENT_TAP_PORT, main_queue, workers, capsVars, IS_PAUSED,
                   configVars, now, hold, inflight, out>>

\* lib.rs:466-472: the text is rendered, the directory created and the file
\* written; then the guard is dropped and the command returns
CmdSaveWrite ==
    /\ At("main", "save_write")
    /\ action_mappings_yml' =
         Some(render_action_mappings_yaml_with_comments(Unwrap(ACTION_MAPPINGS)))
    /\ Release("ACTION_MAPPINGS")
    /\ Goto("main", [at |-> "idle"])
    /\ UNCHANGED <<platform, EVENT_TAP_PORT, main_queue, workers, capsVars, IS_PAUSED,
                   ACTION_MAPPINGS, SHELL_MAPPINGS, INPUT_SOURCE_MAPPINGS, now, hold,
                   inflight, out>>

\* the steps of the main thread that need nothing but the processor and a
\* free mutex
MainThread ==
    MainRunTask \/ LogLock("main") \/ LogWrite("main")
    \/ CmdLockTable \/ CmdMutate \/ CmdSyncShell \/ CmdSyncInput \/ CmdSaveLock \/ CmdSaveWrite

\* hook_macos.rs:480-486: `sh -c` is spawned, or the spawn fails and the
\* failure is to be logged; the worker may also never get there
WorkerCompletes ==
    /\ workers.spawning > 0
    /\ \E failed \in BOOLEAN :
         workers' = [workers EXCEPT !.spawning = @ - 1,
                                    !.failed = @ + (IF failed THEN 1 ELSE 0)]
    /\ UNCHANGED <<platform, EVENT_TAP_PORT, pc, lock, main_queue, capsVars, IS_PAUSED,
                   configVars, now, hold, inflight, out>>

\* hook_macos.rs:485 with 54-55: the worker takes LOG_LOCK
WorkerLogLock ==
    /\ workers.failed > 0
    /\ Acquire("LOG_LOCK", "worker")
    /\ workers' = [workers EXCEPT !.failed = @ - 1, !.logging = @ + 1]
    /\ UNCHANGED <<platform, EVENT_TAP_PORT, pc, main_queue, capsVars, IS_PAUSED,
                   configVars, now, hold, inflight, out>>

\* hook_macos.rs:56-64
WorkerLogWrite ==
    /\ workers.logging > 0
    /\ Release("LOG_LOCK")
    /\ workers' = [workers EXCEPT !.logging = @ - 1]
    /\ UNCHANGED <<platform, EVENT_TAP_PORT, pc, main_queue, capsVars, IS_PAUSED,
                   configVars, now, hold, inflight, out>>

WorkerThread == WorkerLogLock \/ WorkerLogWrite

NextThreads ==
    \/ KeyArrives \/ HookThread
    \/ CmdStart \/ MainThread \/ TaskCompletes
    \/ WorkerCompletes \/ WorkerThread

\* The operating system schedules every thread that can run, and a thread
\* waiting for a mutex gets it when it is free again and again (strong
\* fairness for the hook thread, whose lock a command takes twice in a row).
\* Nothing makes the keyboard or the user act, and nothing makes a dispatched
\* switch or spawn complete: TaskCompletes and WorkerCompletes are not fair.
SpecThreads ==
    /\ InitThreads /\ [][NextThreads]_vars
    /\ SF_vars(HookThread) /\ WF_vars(MainThread) /\ WF_vars(WorkerThread)

(***************************************************************************)
(* The threads and their locks on both platforms.  On Windows the hook     *)
(* thread takes SHELL_MAPPINGS for the lookup of a Shift+key key-down      *)
(* (hook_windows.rs:110-127) and nothing is logged; the commands are the   *)
(* same code on both.                                                      *)
(***************************************************************************)
InitLocks ==
    /\ platform \in {"macos", "windows"}
    /\ CAPS_DOWN = TRUE
    /\ CAPS_PRESSED_AT_MS = StartMs
    /\ DID_REMAP = FALSE
    /\ IS_PAUSED = FALSE
    /\ ACTION_MAPPINGS = Some(ThreadsTable)
    /\ SHELL_MAPPINGS = Some(sync_shell(ThreadsTable))
    /\ INPUT_SOURCE_MAPPINGS = Some(sync_input_sources(ThreadsTable))
    /\ action_mappings_yml = Some(render_action_mappings_yaml_with_comments(ThreadsTable))
    /\ now = StartMs
    /\ hold = [open |-> TRUE, at |-> StartMs, unpaused |-> TRUE, released |-> TRUE,
               remapped |-> FALSE]
    /\ inflight = << >>
    /\ out = NoOut
    /\ InitSys

\* key-downs of H (logged on macOS) and M (a Command on macOS, and with Shift
\* on Windows once the table has it)
LocksEvents ==
    IF platform = "macos"
    THEN { Physical("KeyDown", 4, {}), Physical("KeyDown", 46, {}) }
    ELSE { Physical("WM_KEYDOWN", VK_H, 0), Physical("WM_KEYDOWN", JS_M_KEYCODE, 0) }

LocksKeyArrives ==
    /\ Len(inflight) + Outstanding < MaxOutstanding
    /\ \E ev \in LocksEvents : inflight' = Append(inflight, ev)
    /\ UNCHANGED <<platform, sysVars, capsVars, IS_PAUSED, configVars, now, hold, out>>

\* hook_windows.rs:72-112: the callback starts on the oldest event, reads the
\* Shift state (110) and goes on to the shell lookup or to the fixed keys
WinHookBegin ==
    /\ At("hook", "idle") /\ inflight # << >>
    /\ \E shift_down \in BOOLEAN :
         LET ev == Head(inflight)
             needs_shell ==
                 /\ ~is_paused /\ ~is_injected_win(ev)
                 /\ ~(ev.keycode = VK_CAPITAL /\ (is_down_msg(ev) \/ is_up_msg(ev)))
                 /\ CAPS_DOWN /\ shift_down /\ is_down_msg(ev)
         IN  Goto("hook", [at |-> IF needs_shell THEN "shell_lock" ELSE "send",
                           ev |-> ev, shift_down |-> shift_down])
    /\ UNCHANGED <<platform, EVENT_TAP_PORT, lock, main_queue, workers, capsVars, IS_PAUSED,
                   configVars, now, hold, inflight, out>>

\* hook_windows.rs:113
WinHookLockShell ==
    /\ At("hook", "shell_lock")
    /\ Acquire("SHELL_MAPPINGS", "hook")
    /\ Goto("hook", [pc.hook EXCEPT !.at = "shell_lookup"])
    /\ UNCHANGED <<platform, EVENT_TAP_PORT, main_queue, workers, capsVars, IS_PAUSED,
                   configVars, now, hold, inflight, out>>

\* hook_windows.rs:114-127: the lookup and thread::spawn under the guard,
\* which is dropped at the end of the block
WinHookLookup ==
    /\ At("hook", "shell_lookup")
    /\ workers' = [workers EXCEPT !.spawning =
                      @ + Len(shell_mapping(pc.hook.ev, pc.hook.shift_down).effects.spawned)]
    /\ Release("SHELL_MAPPINGS")
    /\ Goto("hook", [at |-> "return", ev |-> pc.hook.ev,
                     r |-> low_level_keyboard_proc(pc.hook.ev, pc.hook.shift_down)])
    /\ UNCHANGED <<platform, EVENT_TAP_PORT, main_queue, capsVars, IS_PAUSED, configVars, now,
                   hold, inflight, out>>

\* hook_windows.rs:86-105, 129-220: the decision without the shell lookup,
\* and SendInput for a fixed key
WinHookSend ==
    /\ At("hook", "send")
    /\ LET r == low_level_keyboard_proc(pc.hook.ev, pc.hook.shift_down)
       IN  /\ inflight' = inflight \o r.effects.posted
           /\ Goto("hook", [at |-> "return", ev |-> pc.hook.ev, r |-> r])
    /\ UNCHANGED <<platform, EVENT_TAP_PORT, lock, main_queue, workers, capsVars, IS_PAUSED,
                   configVars, now, hold, out>>

WinHookThread ==
    WinHookBegin \/ WinHookLockShell \/ WinHookLookup \/ WinHookSend \/ HookReturn

\* hook_windows.rs:117-123: `cmd /C` is spawned or not; nothing is logged
WinWorkerCompletes ==
    /\ workers.spawning > 0
    /\ workers' = [workers EXCEPT !.spawning = @ - 1]
    /\ UNCHANGED <<platform, EVENT_TAP_PORT, pc, lock, main_queue, capsVars, IS_PAUSED,
                   configVars, now, hold, inflight, out>>

HookOnPlatform ==
    \/ platform = "macos" /\ HookThread
    \/ platform = "windows" /\ WinHookThread

\* the configuration commands, the same steps on both platforms
Commands ==
    CmdLockTable \/ CmdMutate \/ CmdSyncShell \/ CmdSyncInput \/ CmdSaveLock \/ CmdSaveWrite

NextLocks ==
    \/ LocksKeyArrives \/ HookOnPlatform
    \/ CmdStart \/ Commands
    \/ platform = "macos" /\ (WorkerCompletes \/ WorkerThread)
    \/ platform = "windows" /\ WinWorkerCompletes

\* The operating system schedules every thread that can run, and a thread
\* waiting for a mutex gets it when it is free again and again: the other
\* thread leaves the mutex free between two of its acquisitions (strong
\* fairness for the hook thread and for the commands).  Nothing makes the
\* keyboard or the user act, and nothing makes a spawn complete.
SpecLocks ==
    /\ InitLocks /\ [][NextLocks]_vars
    /\ SF_vars(HookOnPlatform) /\ SF_vars(Commands)
    /\ WF_vars(platform = "macos" /\ WorkerThread)

(***************************************************************************)
(* Rendering the table and reading the text back (lib.rs:354-398, 484),    *)
(* for every list of at most MaxTable entries over every action kind, both *)
(* with_shift values and strings with a single quote, two single quotes    *)
(* and a line break.                                                       *)
(***************************************************************************)
YamlStrings == { CmdLs, <<"a", "'", "b">>, <<"'", "'">>, <<"a", "\n", "b">> }

YamlActions ==
    { Directional("word_back"), Jump("up", 10), Independent("insert_quotes") }
    \cup { InputSource(id) : id \in YamlStrings }
    \cup { Command(c) : c \in YamlStrings }

YamlEntries == { Entry(JS_H_KEYCODE, s, a) : s \in BOOLEAN, a \in YamlActions }

YamlTables == UNION { [1..n -> YamlEntries] : n \in 0..MaxTable }

InitYaml ==
    /\ platform \in {"macos", "windows"}
    /\ CAPS_DOWN = FALSE
    /\ CAPS_PRESSED_AT_MS = 0
    /\ DID_REMAP = FALSE
    /\ IS_PAUSED = FALSE
    /\ ACTION_MAPPINGS \in { Some(t) : t \in YamlTables }
    /\ SHELL_MAPPINGS = None
    /\ INPUT_SOURCE_MAPPINGS = None
    /\ action_mappings_yml = None
    /\ now = StartMs
    /\ hold = NoHold
    /\ inflight = << >>
    /\ out = NoOut
    /\ InitSys

\* the table is written (lib.rs:463-473) and the file is read back as the
\* next startup does (lib.rs:480-485)
RoundTrip ==
    /\ action_mappings_yml = None
    /\ LET yaml == render_action_mappings_yaml_with_comments(Unwrap(ACTION_MAPPINGS))
       IN  /\ action_mappings_yml' = Some(yaml)
           /\ out' = [kind |-> "round_trip", yaml |-> yaml,
                      decoded |-> parse_action_mappings_yaml(yaml)]
    /\ UNCHANGED <<platform, sysVars, capsVars, IS_PAUSED, ACTION_MAPPINGS, SHELL_MAPPINGS,
                   INPUT_SOURCE_MAPPINGS, now, hold, inflight>>

SpecYaml == InitYaml /\ [][RoundTrip]_vars

(***************************************************************************)
(* normalize_action_mappings as a function of the entries read from the    *)
(* file (lib.rs:484, 531): every file of at most MaxVec entries, written   *)
(* by hand, so that a (key, with_shift) pair may occur more than once.     *)
(***************************************************************************)
VecEntries ==
    { Entry(k, s, a) : k \in {JS_H_KEYCODE, JS_M_KEYCODE}, s \in BOOLEAN,
                       a \in {Directional("left"), Command(CmdLs)} }

VecTables == UNION { [1..n -> VecEntries] : n \in 0..MaxVec }

InitVec ==
    /\ platform = "macos"
    /\ CAPS_DOWN = FALSE
    /\ CAPS_PRESSED_AT_MS = 0
    /\ DID_REMAP = FALSE
    /\ IS_PAUSED = FALSE
    /\ ACTION_MAPPINGS = None
    /\ SHELL_MAPPINGS = None
    /\ INPUT_SOURCE_MAPPINGS = None
    /\ action_mappings_yml \in
         { Some(render_action_mappings_yaml_with_comments(t)) : t \in VecTables }
    /\ now = StartMs
    /\ hold = NoHold
    /\ inflight = << >>
    /\ out = NoOut
    /\ InitSys

\* the entries parsed from the file, normalized, and normalized once more
Normalize ==
    /\ LET input == parse_action_mappings_yaml(Unwrap(action_mappings_yml))
           result == normalize_action_mappings(input)
       IN  out' = [kind |-> "normalize", input |-> input, result |-> result,
                   again |-> normalize_action_mappings(result)]
    /\ UNCHANGED <<platform, sysVars, capsVars, IS_PAUSED, configVars, now, hold, inflight>>

SpecVec == InitVec /\ [][Normalize]_vars

(***************************************************************************)
(* The Mapping Store across runs of the program, no legacy file present:   *)
(* the startup load, upserts and removes, and the end of the process,      *)
(* after which the next run starts from the statics' initial values        *)
(* (lib.rs:19-27) and the file the last run left.                          *)
(***************************************************************************)
RestartRemoveArgs == ConfigRemoveArgs \cup { <<JS_H_KEYCODE, TRUE>>, <<JS_M_KEYCODE, FALSE>> }

RestartRemove ==
    /\ IsSome(ACTION_MAPPINGS)
    /\ \E arg \in RestartRemoveArgs :
         /\ remove_entry(arg[1], arg[2])
         /\ out' = [kind |-> "remove", command |-> "remove_action_mapping",
                    key |-> arg[1], with_shift |-> arg[2],
                    removed |-> remove_action_mapping_from_vec(
                                    Unwrap(ACTION_MAPPINGS), arg[1], arg[2]).changed]
    /\ ConfigFrame

\* the process ends and is started again; out keeps the table of the run that
\* ended
Restart ==
    /\ IsSome(ACTION_MAPPINGS)
    /\ ACTION_MAPPINGS' = None
    /\ SHELL_MAPPINGS' = None
    /\ INPUT_SOURCE_MAPPINGS' = None
    /\ out' = [kind |-> "restart", table |-> Unwrap(ACTION_MAPPINGS)]
    /\ UNCHANGED <<platform, sysVars, capsVars, IS_PAUSED, action_mappings_yml, now, hold,
                   inflight>>

NextRestart ==
    \/ load_action_mappings_from_disk \/ ConfigUpsert \/ RestartRemove \/ Restart

SpecRestart == InitConfig /\ [][NextRestart]_vars

(***************************************************************************)
(* Key edges.  The hook with the table loaded, every other key followed    *)
(* from its press to its release: a key is pressed only while it is up and *)
(* released only while it is down, Hyper and the paused flag change at any *)
(* time in between, and Shift is free at every edge.  hold also records,   *)
(* per key, the verdict its key-down got, and the synthetic key-downs      *)
(* posted (hook_macos.rs:334-342, hook_windows.rs:20-40) that no synthetic *)
(* key-up of the same target has followed, each with the key whose event   *)
(* posted it.                                                              *)
(***************************************************************************)
\* H (Directional left), I (Backspace) and M (Command with Shift only)
EdgeKeys == IF platform = "macos" THEN {4, 34, 46} ELSE {VK_H, VK_I, JS_M_KEYCODE}

\* the default table after upsert_action_mapping(M, true, Command "ls")
EdgesTable ==
    normalize_action_mappings(
        upsert_action_mapping_in_vec(default_action_mappings(platform),
                                     Entry(JS_M_KEYCODE, TRUE, Command(CmdLs))).mappings)

InitEdges ==
    /\ platform \in {"macos", "windows"}
    /\ CAPS_DOWN = FALSE
    /\ CAPS_PRESSED_AT_MS = 0
    /\ DID_REMAP = FALSE
    /\ IS_PAUSED = FALSE
    /\ ACTION_MAPPINGS = Some(EdgesTable)
    /\ SHELL_MAPPINGS = Some(sync_shell(EdgesTable))
    /\ INPUT_SOURCE_MAPPINGS = Some(sync_input_sources(EdgesTable))
    /\ action_mappings_yml = Some(render_action_mappings_yaml_with_comments(EdgesTable))
    /\ now = StartMs
    /\ hold = [open |-> FALSE, at |-> 0, unpaused |-> FALSE, released |-> FALSE,
               remapped |-> FALSE, keys |-> [k \in EdgeKeys |-> "up"], synth |-> {}]
    /\ inflight = << >>
    /\ out = NoOut
    /\ InitSys

\* the synthetic key-downs still open after the events posted by a callback
\* that handled an event of key trigger
RECURSIVE SynthAfter(_, _, _)
SynthAfter(synth, posted, trigger) ==
    IF posted = << >> THEN synth
    ELSE LET e == Head(posted)
             next == IF e.unicode # 0 THEN synth
                     ELSE IF e.type \in {"KeyDown", "WM_KEYDOWN"}
                          THEN synth \cup {[target |-> e.keycode, trigger |-> trigger]}
                          ELSE {s \in synth : s.target # e.keycode}
         IN  SynthAfter(next, Tail(posted), trigger)

\* the callback on an edge of key k
EdgeHook(ev, shift_down, k) ==
    LET r == IF platform = "macos" THEN event_tap_callback(ev)
             ELSE low_level_keyboard_proc(ev, shift_down)
    IN  Hook(ev, shift_down, "physical", inflight,
             [hold EXCEPT !.keys[k] = IF ev.type = DownType THEN r.verdict ELSE "up",
                          !.synth = SynthAfter(@, r.effects.posted, k)])

\* the user presses a key that is up
KeyPress ==
    /\ Quiet
    /\ \E k \in EdgeKeys, shift \in BOOLEAN :
         /\ hold.keys[k] = "up"
         /\ EdgeHook(Physical(DownType, k,
                              IF platform = "macos"
                              THEN (IF shift THEN {"Shift"} ELSE {}) ELSE 0),
                     shift, k)

\* the user releases a key that is down
KeyRelease ==
    /\ Quiet
    /\ \E k \in EdgeKeys, shift \in BOOLEAN :
         /\ hold.keys[k] # "up"
         /\ EdgeHook(Physical(UpType, k,
                              IF platform = "macos"
                              THEN (IF shift THEN {"Shift"} ELSE {}) ELSE 0),
                     shift, k)

EdgeHyperPress ==
    /\ Quiet /\ ~hold.open
    /\ Hook(Physical(DownType, HyperKeycode, NoFlags), FALSE, "physical", inflight,
            [hold EXCEPT !.open = TRUE, !.at = now, !.unpaused = ~IS_PAUSED,
                         !.released = ~CAPS_DOWN, !.remapped = FALSE])

EdgeHyperRelease ==
    /\ Quiet /\ hold.open
    /\ Hook(Physical(UpType, HyperKeycode, NoFlags), FALSE, "physical", inflight,
            [hold EXCEPT !.open = FALSE, !.at = 0, !.unpaused = FALSE,
                         !.released = FALSE, !.remapped = FALSE])

NextEdges ==
    \/ KeyPress \/ KeyRelease \/ EdgeHyperPress \/ EdgeHyperRelease
    \/ Redeliver \/ set_paused

SpecEdges == InitEdges /\ [][NextEdges]_vars

(***************************************************************************)
(* Properties.                                                             *)
(***************************************************************************)
Table == IF IsSome(ACTION_MAPPINGS) THEN Unwrap(ACTION_MAPPINGS) ELSE << >>

EntriesFor(k, s) == { e \in Range(Table) : e.key = k /\ e.with_shift = s }

Resolved == out.kind = "resolve"

\* C1: shift fallback.  When the table has no (k, true) entry, resolving
\* (k, shift_held = true) returns the (k, false) entry if there is one and its
\* action is neither InputSource nor Command, and no action otherwise.
C1_ShiftFallback ==
    (Resolved /\ out.shift_held /\ EntriesFor(out.key, TRUE) = {}) =>
        LET allowed == { e \in EntriesFor(out.key, FALSE) :
                            e.action.kind \notin {"input_source", "command"} }
        IN  IF allowed = {} THEN out.result = None
            ELSE out.result \in { Some(e) : e \in allowed }

C1_Witness ==
    /\ Resolved /\ out.shift_held /\ EntriesFor(out.key, TRUE) = {}
    /\ \E e \in EntriesFor(out.key, FALSE) : e.action.kind = "directional"
    /\ out.result # None /\ ~Unwrap(out.result).with_shift

\* C2: exact match wins.  If an entry (k, with_shift = s) exists, resolving
\* (k, s) returns that entry whatever else is mapped for k, and resolving with
\* shift not held never returns an entry whose with_shift is true.
C2_ExactMatchWins ==
    Resolved =>
        /\ \A e \in EntriesFor(out.key, out.shift_held) : out.result = Some(e)
        /\ (~out.shift_held /\ out.result # None) => ~Unwrap(out.result).with_shift

C2_Witness ==
    /\ Resolved /\ out.shift_held
    /\ EntriesFor(out.key, FALSE) # {} /\ EntriesFor(out.key, TRUE) # {}
    /\ out.result # None /\ Unwrap(out.result).with_shift
    /\ Table[1].key = out.key /\ ~Table[1].with_shift

HookRan == out.kind = "hook"

\* the event carries the platform's injection marker
CarriesMarker(ev) ==
    IF platform = "macos" THEN ev.user_data = 1196837966
    ELSE (ev.flags \div 16) % 2 = 1

NoEffect(o) ==
    /\ o.posted = << >> /\ o.toggles = 0 /\ o.queued = << >> /\ o.spawned = << >>

\* the callback that just ran handled the physical release of Hyper
HyperReleased ==
    /\ HookRan /\ out.source = "physical"
    /\ out.ev.keycode = HyperKeycode /\ out.ev.type = UpType
    /\ out.hold.open

\* how long the physical key was down
HeldFor == now - out.hold.at

\* C3: macOS tap classification.  A Hyper press observed un-paused while
\* Released and released un-paused after d ms with no key remapped in between
\* toggles the native lock exactly once if d <= 200 and not at all if d > 200;
\* key-down repeats during the hold do not restart the measured duration.
C3_TapClassification ==
    (/\ platform = "macos" /\ HyperReleased /\ ~out.paused
     /\ out.hold.unpaused /\ out.hold.released /\ ~out.hold.remapped)
    => out.toggles = (IF HeldFor <= 200 THEN 1 ELSE 0)

C3_Witness ==
    /\ platform = "macos" /\ HyperReleased /\ ~out.paused
    /\ out.hold.unpaused /\ out.hold.released /\ ~out.hold.remapped
    /\ HeldFor = 200 /\ out.toggles = 1

\* C4: macOS hold-with-remap.  If a key was remapped between a Hyper press
\* observed while Released and the following Hyper release, the native lock is
\* not toggled at that release, whatever the duration and whatever else was
\* delivered during the hold.
C4_HoldWithRemapMac ==
    (/\ platform = "macos" /\ HyperReleased
     /\ out.hold.released /\ out.hold.remapped)
    => out.toggles = 0

C4_Witness ==
    /\ platform = "macos" /\ HyperReleased /\ ~out.paused
    /\ out.hold.unpaused /\ out.hold.released /\ out.hold.remapped
    /\ HeldFor = 0 /\ out.toggles = 0

\* C5: Windows hold-with-remap.  If a key was remapped between a CapsLock
\* key-down and the following CapsLock key-up, the hook injects no synthetic
\* CapsLock at that key-up, also when the key-down auto-repeats during the hold.
C5_HoldWithRemapWin ==
    (/\ platform = "windows" /\ HyperReleased /\ out.hold.remapped)
    => out.posted = << >>

\* C6: Windows tap.  Every non-injected CapsLock key-up processed un-paused
\* with did_remap false injects exactly one synthetic CapsLock down followed by
\* one synthetic CapsLock up, however long the key was held; the physical
\* CapsLock down and up are both suppressed.
C6_WindowsTap ==
    (/\ platform = "windows" /\ HookRan /\ ~out.paused
     /\ ~CarriesMarker(out.ev) /\ out.ev.keycode = 20)
    => /\ out.verdict = "suppress"
       /\ (out.ev.type = "WM_KEYUP" /\ ~DID_REMAP) =>
            /\ Len(out.posted) = 2
            /\ out.posted[1].type = "WM_KEYDOWN" /\ out.posted[1].keycode = 20
            /\ out.posted[2].type = "WM_KEYUP" /\ out.posted[2].keycode = 20
            /\ out.toggles = 0

C6_Witness ==
    /\ platform = "windows" /\ HyperReleased /\ ~out.paused /\ ~DID_REMAP
    /\ HeldFor > 200
    /\ Len(out.posted) = 2 /\ out.verdict = "suppress"

\* C7: on macOS a remap performed during an earlier hold never suppresses the
\* toggle of a later physical Hyper press-and-release that is handled un-paused,
\* lasts at most 200 ms and has no remap during it, also when the engine was
\* paused and un-paused, or Hyper moved while paused, in between.
C7_RemapNeverOutlivesHold ==
    (/\ platform = "macos" /\ HyperReleased /\ ~out.paused
     /\ out.hold.unpaused /\ ~out.hold.remapped /\ HeldFor <= 200)
    => ~(out.toggles = 0 /\ DID_REMAP)

\* C8: an event carrying the injection marker is passed through without
\* changing held, pressed_at or did_remap, without being remapped and without
\* any synthetic event, toggle, command or switch, also when its key code is
\* the Hyper key code and whether or not Hyper is held.
C8_InjectedPassThrough ==
    [][(out'.kind = "hook" /\ CarriesMarker(out'.ev)) =>
         /\ UNCHANGED capsVars
         /\ out'.verdict = "pass"
         /\ NoEffect(out')
         /\ hold'.remapped = out'.hold.remapped]_vars

C8_Witness ==
    /\ platform = "macos" /\ HookRan /\ CarriesMarker(out.ev)
    /\ out.ev.keycode = HyperKeycode /\ out.ev.type = UpType
    /\ CAPS_DOWN /\ out.verdict = "pass"

\* the actions the macOS executor posts events for, and the keys the Windows
\* hook does
PostingActions ==
    { Directional(a) : a \in {"left", "right", "up", "down", "word_forward", "word_back",
                               "home", "end"} }
    \cup { Jump(d, c) : d \in {"up", "down"}, c \in {1, 2, 10} }
    \cup { Independent(a) : a \in {"backspace", "next_line", "insert_quotes"} }

PostingKeys == {65, 68, 69, 72, 73, 74, 75, 76, 78, 79, 80, 85, 89}

\* C9: every synthetic event the executor posts, for every action kind and
\* both edges, carries the injection marker when it is posted, and a synthetic
\* event that comes back to the hook produces no further output.
C9_SyntheticEventsMarked ==
    /\ platform = "macos" =>
         \A a \in PostingActions, key_down \in BOOLEAN, mods \in MacFlagSets :
            \A e \in Range(execute_action_mapping(a, key_down, mods).posted) :
               CarriesMarker(e)
    /\ platform = "windows" =>
         \A vk \in PostingKeys \cup {20}, type \in {"WM_KEYDOWN", "WM_KEYUP"} :
            \A e \in Range((IF vk = 20 THEN capital_key(Physical(type, vk, 0))
                            ELSE builtin_mapping(Physical(type, vk, 0))).effects.posted) :
               CarriesMarker(e)
    /\ \A i \in DOMAIN inflight : CarriesMarker(inflight[i])
    /\ (HookRan /\ out.source = "redelivered") => (out.verdict = "pass" /\ NoEffect(out))

C9_Witness ==
    /\ HookRan /\ out.source = "redelivered" /\ CarriesMarker(out.ev)
    /\ platform = "macos" /\ CAPS_DOWN /\ out.ev.keycode = 123
    /\ out.verdict = "pass" /\ NoEffect(out)

\* C10: while the paused flag is set the hook passes every key event through,
\* Hyper and mapped keys included, posts nothing, toggles nothing and starts no
\* command or input-source switch.
C10_PausedPassThrough ==
    (HookRan /\ out.paused) => (out.verdict = "pass" /\ NoEffect(out))

C10_Witness ==
    /\ HookRan /\ out.paused /\ out.source = "physical"
    /\ CAPS_DOWN /\ out.ev.keycode = 4 /\ out.ev.type = "KeyDown"
    /\ resolve_action_mapping(ACTION_MAPPINGS, 72, FALSE) # None
    /\ out.verdict = "pass"

\* the callback that just ran handled a keyboard event of a key other than Hyper
OtherKey ==
    /\ HookRan /\ out.source = "physical"
    /\ out.ev.keycode # HyperKeycode
    /\ ~(out.ev.type = "FlagsChanged" /\ out.ev.keycode = 57)

\* C11: pausing does not clean up CapsState.  Setting or clearing the paused
\* flag, and every event delivered while it is set (Hyper key-down and key-up
\* included), leave held, pressed_at and did_remap as they were, so that the
\* first event handled after un-pausing meets the retained state.
C11_PauseRetainsCapsState ==
    [][/\ (out'.kind = "hook" /\ out'.paused) => UNCHANGED capsVars
       /\ (IS_PAUSED' # IS_PAUSED) => UNCHANGED capsVars]_vars

\* Hyper was released while paused, and the mapped key pressed after
\* un-pausing is remapped and suppressed
C11_Witness ==
    /\ platform = "macos" /\ OtherKey /\ ~out.paused
    /\ ~out.hold.open /\ CAPS_DOWN
    /\ out.ev.keycode = 4 /\ out.ev.type = "KeyDown"
    /\ out.verdict = "suppress" /\ out.posted # << >>

\* the logical key and the shift state of the event the callback just handled
LogicalKey ==
    IF platform = "macos" THEN mac_keycode_to_js_keycode(out.ev.keycode)
    ELSE Some(out.ev.keycode)

ShiftHeld == IF platform = "macos" THEN "Shift" \in out.ev.flags ELSE out.shift

\* what the mapping table resolves that event to
ResolvedEntry ==
    IF LogicalKey = None THEN None
    ELSE resolve_action_mapping(ACTION_MAPPINGS, Unwrap(LogicalKey), ShiftHeld)

\* C12: while Hyper is held and the engine is not paused, every non-injected
\* key-down or key-up of another key whose (logical key, shift) resolves to an
\* action is suppressed and sets did_remap, on both edges and for every action
\* kind.
C12_MappedKeysSuppressed ==
    (OtherKey /\ ~out.paused /\ CAPS_DOWN /\ ResolvedEntry # None)
    => (out.verdict = "suppress" /\ DID_REMAP)

\* C13: unbound keys stay usable while Hyper is held.  A key event whose native
\* code has no logical key, or whose (logical key, shift) resolves to no entry
\* of the current table, passes through, posts nothing and leaves did_remap
\* unchanged.
C13_UnboundKeysPass ==
    [][(/\ out'.kind = "hook" /\ out'.source = "physical" /\ ~out'.paused
        /\ out'.ev.keycode # HyperKeycode
        /\ ~(out'.ev.type = "FlagsChanged" /\ out'.ev.keycode = 57)
        /\ ACTION_MAPPINGS # None
        /\ \/ platform = "macos" /\ mac_keycode_to_js_keycode(out'.ev.keycode) = None
           \/ LET key == IF platform = "macos"
                         THEN Unwrap(mac_keycode_to_js_keycode(out'.ev.keycode))
                         ELSE out'.ev.keycode
                  shift_held == IF platform = "macos" THEN "Shift" \in out'.ev.flags
                                ELSE out'.shift
              IN  resolve_action_mapping(ACTION_MAPPINGS, key, shift_held) = None)
       => (/\ out'.verdict = "pass" /\ NoEffect(out')
           /\ DID_REMAP' = DID_REMAP)]_vars

\* the same key transition as each backend receives it: the macOS event and
\* the Windows event of H, of M and of a Hyper key-down
BackendEvents ==
    { [mac |-> KeyEvent(IF down THEN "KeyDown" ELSE "KeyUp", k[1],
                        IF shift THEN {"Shift"} ELSE {}, 0, 0),
       win |-> KeyEvent(IF down THEN "WM_KEYDOWN" ELSE "WM_KEYUP", k[2], 0, 0, 0),
       shift |-> shift] :
        k \in { <<4, 72>>, <<46, 77>> }, down \in BOOLEAN, shift \in BOOLEAN }
    \cup { [mac |-> KeyEvent("KeyDown", 79, {}, 0, 0),
            win |-> KeyEvent("WM_KEYDOWN", 20, 0, 0, 0), shift |-> FALSE] }

\* C14: the two hook backends implement the same remap state machine.  In every
\* state with a loaded table, each non-injected key transition gets the same
\* suppress/pass verdict and the same updates of held and did_remap from the
\* macOS callback and from the Windows hook procedure.
C14_BackendsAgree ==
    ACTION_MAPPINGS # None =>
        \A e \in BackendEvents :
            LET m == event_tap_callback(e.mac)
                w == low_level_keyboard_proc(e.win, e.shift)
            IN  /\ m.verdict = w.verdict
                /\ m.caps_down = w.caps_down
                /\ m.did_remap = w.did_remap

\* C15: CapsState invariant on macOS.  After every completed callback
\* pressed_at is set (non-zero) exactly when held is true, and did_remap goes
\* from false to true only in a callback that runs while held is true.
C15_CapsStateInvariant ==
    /\ [](platform = "macos" => ((CAPS_PRESSED_AT_MS # 0) <=> CAPS_DOWN))
    /\ [][(platform = "macos" /\ ~DID_REMAP /\ DID_REMAP')
          => (out'.kind = "hook" /\ CAPS_DOWN /\ CAPS_DOWN')]_vars

\* held and pressed_at stay set after a release that was delivered while
\* paused, and did_remap has become true during the hold
C15_Witness ==
    /\ platform = "macos" /\ HookRan /\ ~out.paused
    /\ CAPS_DOWN /\ CAPS_PRESSED_AT_MS # 0 /\ DID_REMAP
    /\ ~out.hold.open /\ now > CAPS_PRESSED_AT_MS

Loaded == ACTION_MAPPINGS # None

\* C16: uniqueness invariant of the mapping table.  In every state reachable
\* from the startup load by upsert, remove and the legacy add/remove wrappers
\* the table holds at most one entry per (key, with_shift) pair.
C16_TableUnique == Loaded => UniquePairs(Unwrap(ACTION_MAPPINGS))

\* the load of a file that repeats a pair: the later value is kept, at the
\* position of the earlier one
C16_Witness ==
    /\ Loaded /\ out.kind = "load" /\ out.file # None
    /\ ~UniquePairs(parse_action_mappings_yaml(Unwrap(out.file)))
    /\ UniquePairs(Unwrap(ACTION_MAPPINGS))
    /\ Unwrap(ACTION_MAPPINGS)[1] = Entry(72, FALSE, Directional("left"))

\* text that is empty or consists of white space only
Blank(text) == \A i \in DOMAIN text : text[i] \in {" ", "\t", "\n"}

\* an action the validation rules exclude
Invalid(action) ==
    \/ action.kind = "command" /\ Blank(action.command)
    \/ action.kind = "input_source" /\ Blank(action.input_source_id)
    \/ action.kind = "jump" /\ action.count = 0

\* C18: upsert_action_mapping rejects a Command with empty or white-space text,
\* an InputSource with empty or white-space id and a Jump with count 0: it
\* returns an error and the table, the two legacy caches and the persisted
\* file are left unchanged.
C18_UpsertRejectsInvalid ==
    [][(out'.kind = "upsert" /\ Invalid(out'.entry.action))
       => (out'.result = "err" /\ UNCHANGED configVars)]_vars

C18_Witness ==
    /\ Loaded /\ out.kind = "upsert" /\ out.result = "err"
    /\ out.entry.action = Command(<<" ">>)
    /\ \A m \in Range(Unwrap(ACTION_MAPPINGS)) : ~Invalid(m.action)

\* C19: validation invariant of the mapping table.  In every reachable state,
\* the startup load included, every Command entry has non-empty text, every
\* InputSource entry a non-empty id and every Jump entry a count >= 1.
C19_TableValid ==
    Loaded => \A m \in Range(Unwrap(ACTION_MAPPINGS)) : ~Invalid(m.action)

\* C17: upsert_action_mapping_in_vec.  An entry with the same (key,
\* with_shift) is replaced at its position, the length and every other entry
\* stay, and the result is true iff the action differs; without such an entry
\* the new one is appended, the others keep their positions and the result is
\* true.  The same upsert once more changes nothing and returns false.
C17_UpsertInVec ==
    out.kind = "upsert_in_vec" =>
        LET e == out.entry
            r == out.result
            same == { i \in DOMAIN Table : SamePair(Table[i], e) }
        IN  /\ IF same # {}
               THEN \A i \in same :
                       /\ Len(r.mappings) = Len(Table)
                       /\ r.mappings[i] = e
                       /\ \A j \in DOMAIN Table : j # i => r.mappings[j] = Table[j]
                       /\ r.changed <=> (Table[i].action # e.action)
               ELSE /\ Len(r.mappings) = Len(Table) + 1
                    /\ r.mappings[Len(Table) + 1] = e
                    /\ \A j \in DOMAIN Table : r.mappings[j] = Table[j]
                    /\ r.changed
            /\ out.again.mappings = r.mappings
            /\ ~out.again.changed

\* the first of two entries is replaced in place by a different action
C17_Witness ==
    /\ out.kind = "upsert_in_vec" /\ Len(Table) = 2
    /\ SamePair(Table[1], out.entry) /\ Table[1] # out.entry
    /\ out.result.changed /\ out.result.mappings[1] = out.entry
    /\ out.result.mappings[2] = Table[2]

Executed == out.kind = "execute"

\* C20: Jump execution.  A Jump with count >= 1 executed on key-down posts
\* exactly count down+up pairs of the direction's arrow key, strictly
\* alternating down, up, each with the active modifiers; on key-up it posts
\* nothing.
C20_JumpExecution ==
    (Executed /\ out.action.kind = "jump" /\ out.action.count >= 1) =>
        LET posted == out.effects.posted
            arrow == IF out.action.direction = "up" THEN 126 ELSE 125
        IN  /\ out.effects.queued = << >> /\ out.effects.spawned = << >>
            /\ IF out.key_down
               THEN /\ Len(posted) = 2 * out.action.count
                    /\ \A i \in DOMAIN posted :
                          /\ posted[i].keycode = arrow
                          /\ posted[i].type = (IF i % 2 = 1 THEN "KeyDown" ELSE "KeyUp")
                          /\ posted[i].flags = out.active_modifiers
               ELSE posted = << >>

C20_Witness ==
    /\ Executed /\ out.action = Jump("down", 10) /\ out.key_down
    /\ out.active_modifiers = {"Shift"}
    /\ Len(out.effects.posted) = 20
    /\ out.effects.posted[20].type = "KeyUp" /\ out.effects.posted[20].keycode = 125

BuiltinRan == out.kind = "builtin"

IsDownEdge(e) == e.type \in {"KeyDown", "WM_KEYDOWN"}

IsUpEdge(e) == e.type \in {"KeyUp", "WM_KEYUP"}

\* The events from position first on are exactly taps complete taps of
\* keycode with the given flags: down, up, down, up, ...
TapsFrom(posted, first, taps, keycode, flags) ==
    /\ Len(posted) = first - 1 + 2 * taps
    /\ \A i \in first..Len(posted) :
          /\ posted[i].keycode = keycode
          /\ posted[i].flags = flags
          /\ posted[i].unicode = 0
          /\ IF (i - first) % 2 = 0 THEN IsDownEdge(posted[i]) ELSE IsUpEdge(posted[i])

QuoteInserts(posted) == { i \in DOMAIN posted : posted[i].unicode = 34 /\ IsDownEdge(posted[i]) }

\* C21: InsertQuotes execution.  On key-down the executor posts exactly six
\* quote-character insert events and then exactly three complete Left-arrow
\* taps (down, up), every quote event before the first Left event; on key-up
\* it posts nothing.  macOS inserts each quote with one key-down carrying the
\* string, Windows with one unicode down+up packet pair.
C21_InsertQuotes ==
    /\ (Executed /\ out.action = Independent("insert_quotes")) =>
          LET posted == out.effects.posted
          IN  /\ out.effects.queued = << >> /\ out.effects.spawned = << >>
              /\ IF out.key_down
                 THEN /\ QuoteInserts(posted) = 1..6
                      /\ \A i \in 1..6 : posted[i].user_data = INJECTED_EVENT_MAGIC
                      /\ TapsFrom(posted, 7, 3, KC_LEFT, {})
                 ELSE posted = << >>
    /\ (BuiltinRan /\ out.ev.keycode = VK_N) =>
          LET posted == out.result.effects.posted
          IN  /\ out.result.handled
              /\ out.result.effects.queued = << >> /\ out.result.effects.spawned = << >>
              /\ IF is_down_msg(out.ev)
                 THEN /\ QuoteInserts(posted) = { 2 * i - 1 : i \in 1..6 }
                      /\ \A i \in 1..12 :
                            /\ posted[i].unicode = 34 /\ posted[i].keycode = 0
                            /\ IF i % 2 = 1 THEN IsDownEdge(posted[i]) ELSE IsUpEdge(posted[i])
                      /\ TapsFrom(posted, 13, 3, VK_LEFT, LLKHF_INJECTED)
                 ELSE posted = << >>

C21_Witness ==
    \/ /\ Executed /\ out.action = Independent("insert_quotes") /\ out.key_down
       /\ out.flags = {"Shift", "AlphaShift"}
       /\ Len(out.effects.posted) = 12
       /\ out.effects.posted[6].unicode = 34 /\ out.effects.posted[7].keycode = KC_LEFT
    \/ /\ BuiltinRan /\ out.ev.keycode = VK_N /\ out.ev.type = "WM_KEYDOWN"
       /\ Len(out.result.effects.posted) = 18
       /\ out.result.effects.posted[12].unicode = 34
       /\ out.result.effects.posted[13].keycode = VK_LEFT

\* C22: NextLine execution.  On key-down the executor posts one complete
\* move-to-end-of-line tap (down, up) and then one complete Return tap, in
\* that order, with modifiers fixed by the action (Command+Right then a bare
\* Return on macOS, End then Return on Windows) whatever modifiers the
\* triggering event carried; on key-up it posts nothing.
C22_NextLine ==
    /\ (Executed /\ out.action = Independent("next_line")) =>
          LET posted == out.effects.posted
          IN  /\ out.effects.queued = << >> /\ out.effects.spawned = << >>
              /\ IF out.key_down
                 THEN /\ TapsFrom(SubSeq(posted, 1, 2), 1, 1, KC_RIGHT, {"Command"})
                      /\ TapsFrom(posted, 3, 1, KC_RETURN, {})
                 ELSE posted = << >>
    /\ (BuiltinRan /\ out.ev.keycode = VK_O) =>
          LET posted == out.result.effects.posted
          IN  /\ out.result.handled
              /\ out.result.effects.queued = << >> /\ out.result.effects.spawned = << >>
              /\ IF is_down_msg(out.ev)
                 THEN /\ TapsFrom(SubSeq(posted, 1, 2), 1, 1, VK_END, LLKHF_INJECTED)
                      /\ TapsFrom(posted, 3, 1, VK_RETURN, LLKHF_INJECTED)
                 ELSE posted = << >>

C22_Witness ==
    \/ /\ Executed /\ out.action = Independent("next_line") /\ out.key_down
       /\ out.active_modifiers = {"Shift", "Control"}
       /\ Len(out.effects.posted) = 4
       /\ out.effects.posted[1].flags = {"Command"} /\ out.effects.posted[4].keycode = KC_RETURN
    \/ /\ BuiltinRan /\ out.ev.keycode = VK_O /\ out.ev.type = "WM_KEYDOWN"
       /\ Len(out.result.effects.posted) = 4
       /\ out.result.effects.posted[2].keycode = VK_END
       /\ out.result.effects.posted[2].type = "WM_KEYUP"

\* The key and the added modifier of a Directional action or Backspace
\* (hook_macos.rs:394-418, 432-434).
DirectTarget(action) ==
    IF action.kind = "independent" THEN [keycode |-> KC_DELETE, added |-> {}]
    ELSE CASE action.action = "left" -> [keycode |-> KC_LEFT, added |-> {}]
           [] action.action = "right" -> [keycode |-> KC_RIGHT, added |-> {}]
           [] action.action = "up" -> [keycode |-> KC_UP, added |-> {}]
           [] action.action = "down" -> [keycode |-> KC_DOWN, added |-> {}]
           [] action.action = "word_forward" -> [keycode |-> KC_RIGHT, added |-> {"Alternate"}]
           [] action.action = "word_back" -> [keycode |-> KC_LEFT, added |-> {"Alternate"}]
           [] action.action = "home" -> [keycode |-> KC_LEFT, added |-> {"Command"}]
           [] action.action = "end" -> [keycode |-> KC_RIGHT, added |-> {"Command"}]

\* C23: Directional and Backspace execution on macOS.  Each edge of the bound
\* key posts exactly one synthetic event of the target key with the same
\* edge, whose flags are the triggering event's flags restricted to Shift,
\* Control, Alternate, Command and Fn, plus the action's added modifier
\* (Alternate for word-forward/back, Command for home/end, none otherwise).
C23_DirectionalAndBackspace ==
    (Executed /\ (out.action.kind = "directional" \/ out.action = Independent("backspace"))) =>
        LET posted == out.effects.posted
            target == DirectTarget(out.action)
        IN  /\ out.effects.queued = << >> /\ out.effects.spawned = << >>
            /\ Len(posted) = 1
            /\ posted[1].keycode = target.keycode
            /\ posted[1].type = (IF out.key_down THEN "KeyDown" ELSE "KeyUp")
            /\ posted[1].flags =
                 (out.flags \cap {"Shift", "Control", "Alternate", "Command", "SecondaryFn"})
                 \cup target.added
            /\ ("Shift" \in out.flags) => ("Shift" \in posted[1].flags)

C23_Witness ==
    /\ Executed /\ out.action = Directional("word_back") /\ ~out.key_down
    /\ out.flags = {"Shift", "AlphaShift"}
    /\ out.effects.posted = post_key(KC_LEFT, FALSE, {"Shift", "Alternate"})

\* the shell command the Windows hook finds for that event (hook_windows.rs:
\* 110-114): a Shift+key entry of SHELL_MAPPINGS
ShellCommand ==
    IF platform = "windows" /\ out.shift /\ IsSome(SHELL_MAPPINGS)
       /\ out.ev.keycode \in DOMAIN Unwrap(SHELL_MAPPINGS)
    THEN Some(Unwrap(SHELL_MAPPINGS)[out.ev.keycode])
    ELSE None

C28_RoundTrip ==
    (out.kind = "round_trip") => (out.decoded = Table)

TapNotified == HookRan /\ out.source = "system"

\* C27: re-arming is a safe no-op without a handle.  On a tap-disabled
\* notification reenable_event_tap makes no OS re-enable call and reports
\* failure when EVENT_TAP_PORT is 0, and requests the re-enable of the
\* recorded handle otherwise; either way the notification passes, changes no
\* CapsState, posts nothing, and the callback goes on handling the events
\* that follow (a Hyper key-down is still tracked and suppressed).
C27_RearmWithoutHandle ==
    [][/\ (out'.kind = "hook" /\ out'.source = "system") =>
             /\ Len(out'.reenable) = 1
             /\ IF EVENT_TAP_PORT = 0
                THEN ~out'.reenable[1].ok /\ out'.reenable[1].enabled = << >>
                ELSE out'.reenable[1].ok /\ out'.reenable[1].enabled = <<EVENT_TAP_PORT>>
             /\ out'.verdict = "pass" /\ NoEffect(out')
             /\ UNCHANGED <<capsVars, IS_PAUSED, configVars, inflight, EVENT_TAP_PORT>>
       /\ (out'.kind = "hook" /\ out'.source # "system") => out'.reenable = << >>
       /\ (TapNotified /\ out'.kind = "hook" /\ out'.source = "physical" /\ ~IS_PAUSED
           /\ out'.ev.keycode = HyperKeycode /\ out'.ev.type = DownType) =>
             (CAPS_DOWN' /\ out'.verdict = "suppress")]_vars

C27_Witness ==
    /\ TapNotified /\ EVENT_TAP_PORT = 0 /\ CAPS_DOWN /\ DID_REMAP
    /\ out.reenable = << [ok |-> FALSE, enabled |-> << >>] >>

\* C30: engine status.  get_status returns "Paused" exactly when the paused
\* flag is set and "Running" otherwise; set_paused(p) sets the flag to p,
\* returns the status for p and changes nothing else; a second set_paused(p)
\* changes nothing; only set_paused changes the flag, and a callback that
\* starts after it uses the new value: paused, it passes the event and leaves
\* CapsState alone; running, it tracks and suppresses a Hyper key-down.
C30_EngineStatus ==
    [][/\ (out'.kind = "get_status") =>
             /\ out'.result = (IF IS_PAUSED THEN "Paused" ELSE "Running")
             /\ UNCHANGED IS_PAUSED
       /\ (out'.kind = "set_paused") =>
             /\ IS_PAUSED' = out'.paused
             /\ out'.result = (IF out'.paused THEN "Paused" ELSE "Running")
             /\ UNCHANGED <<capsVars, configVars, inflight>>
       /\ (out.kind = "set_paused" /\ out'.kind = "set_paused" /\ out'.paused = out.paused) =>
             UNCHANGED vars
       /\ (IS_PAUSED' # IS_PAUSED) => out'.kind = "set_paused"
       /\ (out'.kind = "hook" /\ out'.source = "physical") =>
             /\ out'.paused = IS_PAUSED
             /\ IS_PAUSED => (out'.verdict = "pass" /\ NoEffect(out') /\ UNCHANGED capsVars)
             /\ (~IS_PAUSED /\ out'.ev.keycode = HyperKeycode /\ out'.ev.type = DownType) =>
                   (CAPS_DOWN' /\ out'.verdict = "suppress")]_vars

C30_Witness ==
    /\ out.kind = "set_paused" /\ out.paused /\ out.result = "Paused" /\ IS_PAUSED
    /\ CAPS_DOWN /\ hold.open

\* C29: separation of writers.  The configuration operations (the load,
\* upsert_action_mapping, remove_action_mapping, the legacy wrappers,
\* set_paused, the tray toggle), like every step that is not a hook callback,
\* leave held, pressed_at and did_remap as they were; a hook callback leaves
\* the mapping table, the legacy caches, the persisted file and the paused
\* flag as they were.
C29_SeparationOfWriters ==
    [][/\ (out'.kind # "hook") => UNCHANGED capsVars
       /\ (out'.kind = "hook") => UNCHANGED <<configVars, IS_PAUSED>>]_vars

C29_Witness ==
    /\ out = NoOut /\ hold.open /\ hold.unpaused /\ IS_PAUSED
    /\ CAPS_DOWN /\ DID_REMAP /\ CAPS_PRESSED_AT_MS = hold.at
    /\ Entry(JS_M_KEYCODE, TRUE, Command(CmdLs)) \in Range(Table)

\* the steps at which a thread waits for another mutex or does file I/O
BlockingSteps == {"sync_shell", "sync_input", "save_write", "log_lock", "log_write"}

\* C26: the mapping-table lock is held only for an in-memory lookup or
\* mutation.  No thread holds the ACTION_MAPPINGS lock while it performs file
\* I/O or waits for another lock.
C26_TableLockScope ==
    \A t \in {"hook", "main"} :
        (lock["ACTION_MAPPINGS"] = t) => pc[t].at \notin BlockingSteps

\* C25: action execution never blocks the hook.  Whenever events are queued
\* for the callback, the callback reaches its return for the oldest of them,
\* and a callback that has reached its return hands back its verdict: every
\* event gets its verdict, whether or not the workers spawned and the
\* switches queued for earlier Command and InputSource key-downs ever
\* complete.
C25_HookNeverBlocks ==
    /\ (inflight # << >>) ~> At("hook", "return")
    /\ At("hook", "return") ~> At("hook", "idle")

C25_Witness ==
    /\ out.kind = "verdict" /\ out.verdict = "suppress"
    /\ out.ev = Physical("KeyDown", 4, {})
    /\ workers.spawning = 1 /\ DID_REMAP
    /\ At("hook", "idle") /\ At("main", "idle")

\* the callback that just ran handled an event of the physical Hyper key: F18
\* key-down or key-up or a raw CapsLock flags-changed event on macOS, CapsLock
\* key-down or key-up on Windows
HyperEvent ==
    /\ HookRan /\ ~CarriesMarker(out.ev)
    /\ IF platform = "macos"
       THEN \/ out.ev.keycode = 79 /\ out.ev.type \in {"KeyDown", "KeyUp"}
            \/ out.ev.keycode = 57 /\ out.ev.type = "FlagsChanged"
       ELSE /\ out.ev.keycode = 20
            /\ out.ev.type \in {"WM_KEYDOWN", "WM_SYSKEYDOWN", "WM_KEYUP", "WM_SYSKEYUP"}

\* C31: the Hyper key never reaches applications while the engine is running.
\* Every non-injected Hyper event handled while not paused is suppressed,
\* whatever held and did_remap are: the first key-down, a repeated key-down
\* while held, and a key-up, also one that arrives while not held.
C31_HyperNeverReachesApps ==
    (HyperEvent /\ ~out.paused) => out.verdict = "suppress"

\* an auto-repeated key-down of Hyper, handled while held with a key already
\* remapped
C31_Witness ==
    /\ HyperEvent /\ ~out.paused
    /\ out.ev.type = DownType /\ out.hold.open /\ out.hold.remapped
    /\ CAPS_DOWN /\ out.verdict = "suppress"

\* the callback that just ran handled the release of a key whose press was
\* followed
KeyReleased ==
    /\ HookRan /\ out.source = "physical"
    /\ out.ev.keycode \in EdgeKeys /\ IsUpEdge(out.ev)

\* C32: every physical key gets the same verdict for its down and up edges.
\* Whatever happens between the two (Hyper pressed or released, Shift pressed
\* or released, the engine paused or resumed), the key-up of a key is
\* suppressed if its key-down was suppressed and passed through if its
\* key-down was passed through.
C32_ConsistentVerdicts ==
    KeyReleased => out.verdict = out.hold.keys[out.ev.keycode]

\* the synthetic key-ups among posted whose target has no open synthetic
\* key-down
RECURSIVE OrphanUps(_, _)
OrphanUps(open, posted) ==
    IF posted = << >> THEN {}
    ELSE LET e == Head(posted)
         IN  IF e.unicode # 0 THEN OrphanUps(open, Tail(posted))
             ELSE IF IsDownEdge(e) THEN OrphanUps(open \cup {e.keycode}, Tail(posted))
             ELSE (IF e.keycode \in open THEN {} ELSE {e.keycode})
                  \cup OrphanUps(open \ {e.keycode}, Tail(posted))

\* C33: no stuck synthetic keys.  A synthetic key-down stays without its
\* synthetic key-up only while the key whose event posted it is still down:
\* once that key is released (also after Hyper was released or the engine
\* paused in between) the key-up of the same target has been posted; and no
\* callback posts a synthetic key-up for a target that has no open synthetic
\* key-down.
C33_NoStuckSyntheticKeys ==
    /\ \A s \in hold.synth : hold.keys[s.trigger] # "up"
    /\ (HookRan /\ out.source = "physical") =>
          OrphanUps({s.target : s \in out.hold.synth}, out.posted) = {}

Pair(m) == <<m.key, m.with_shift>>

\* the positions of the first and of the last entry of s with the pair p
FirstOf(s, p) == CHOOSE i \in DOMAIN s : Pair(s[i]) = p /\ \A j \in 1..(i - 1) : Pair(s[j]) # p

LastOf(s, p) ==
    CHOOSE i \in DOMAIN s : Pair(s[i]) = p /\ \A j \in (i + 1)..Len(s) : Pair(s[j]) # p

\* C34: normalize_action_mappings.  The result holds exactly one entry for
\* each (key, with_shift) pair of the input; that entry has the action of the
\* pair's last occurrence in the input and stands where the pair's first
\* occurrence stands relative to the other pairs.  A table with unique pairs
\* is returned unchanged, and normalizing twice equals normalizing once.
C34_Normalize ==
    out.kind = "normalize" =>
        LET input == out.input
            result == out.result
        IN  /\ UniquePairs(result)
            /\ {Pair(m) : m \in Range(result)} = {Pair(m) : m \in Range(input)}
            /\ \A i \in DOMAIN result :
                  result[i].action = input[LastOf(input, Pair(result[i]))].action
            /\ \A i, j \in DOMAIN result :
                  i < j => FirstOf(input, Pair(result[i])) < FirstOf(input, Pair(result[j]))
            /\ UniquePairs(input) => result = input
            /\ out.again = result

\* the pair of the first entry occurs again as the third with another action:
\* the result keeps the first position and takes the third entry's action
C34_Witness ==
    /\ out.kind = "normalize" /\ Len(out.input) = 3
    /\ Pair(out.input[1]) = Pair(out.input[3]) /\ out.input[1] # out.input[3]
    /\ Pair(out.input[2]) # Pair(out.input[1])
    /\ out.result = <<out.input[3], out.input[2]>>

\* the positions of the entries of s with another pair than (key, with_shift)
OtherPairs(s, key, with_shift) == { i \in DOMAIN s : Pair(s[i]) # <<key, with_shift>> }

\* C35: remove_action_mapping(key, with_shift) removes every entry with
\* exactly that pair and nothing else.  All other entries, the entry of the
\* same key with the other with_shift value included, remain in the same
\* relative order; without such an entry the table is unchanged; and
\* remove_action_mapping_from_vec returns true if and only if the table got
\* shorter.
C35_RemoveActionMapping ==
    [][(out'.kind = "remove" /\ out'.command = "remove_action_mapping") =>
          LET kept == OtherPairs(Table, out'.key, out'.with_shift)
          IN  /\ Len(Table') = Cardinality(kept)
              /\ \A i \in kept :
                    Table'[Cardinality({j \in kept : j <= i})] = Table[i]
              /\ (kept = DOMAIN Table) => Table' = Table
              /\ out'.removed <=> Len(Table') < Len(Table)]_vars

\* (H, false) was removed and the entry of H with Shift is still there
C35_Witness ==
    /\ out.kind = "remove" /\ out.command = "remove_action_mapping"
    /\ out.key = 72 /\ ~out.with_shift /\ out.removed
    /\ EntriesFor(72, FALSE) = {} /\ EntriesFor(72, TRUE) # {}
    /\ Len(Table) = 2

\* C36: persistence across restart.  With no legacy mapping file present,
\* the table that load_action_mappings_from_disk installs at the next startup
\* equals the table of the run that ended, as its last upsert or remove left
\* it, also when that table is empty because every mapping was removed.
C36_PersistenceAcrossRestart ==
    [][(out.kind = "restart" /\ IsSome(ACTION_MAPPINGS')) => Table' = out.table]_vars

\* the Command entries with Shift and the InputSource entries without
ShellEntries == { m \in Range(Table) : m.action.kind = "command" /\ m.with_shift }

InputSourceEntries == { m \in Range(Table) : m.action.kind = "input_source" /\ ~m.with_shift }

\* C37: legacy cache consistency.  After the startup load and after every
\* completed upsert or remove, SHELL_MAPPINGS is exactly the map from key to
\* command of the table's Command entries with with_shift = true and
\* INPUT_SOURCE_MAPPINGS exactly the map from key to id of its InputSource
\* entries with with_shift = false; get_mappings and
\* get_input_source_mappings return those same maps.
C37_LegacyCacheConsistency ==
    Loaded =>
        /\ IsSome(SHELL_MAPPINGS) /\ IsSome(INPUT_SOURCE_MAPPINGS)
        /\ DOMAIN Unwrap(SHELL_MAPPINGS) = {m.key : m \in ShellEntries}
        /\ \A m \in ShellEntries : Unwrap(SHELL_MAPPINGS)[m.key] = m.action.command
        /\ DOMAIN Unwrap(INPUT_SOURCE_MAPPINGS) = {m.key : m \in InputSourceEntries}
        /\ \A m \in InputSourceEntries :
              Unwrap(INPUT_SOURCE_MAPPINGS)[m.key] = m.action.input_source_id
        /\ get_mappings = Unwrap(SHELL_MAPPINGS)
        /\ get_input_source_mappings = Unwrap(INPUT_SOURCE_MAPPINGS)

\* after an upsert both caches hold one key, and the table also holds a
\* Command without Shift and an InputSource with Shift, which neither has
C37_Witness ==
    /\ Loaded /\ out.kind = "upsert" /\ out.result = "ok"
    /\ DOMAIN Unwrap(SHELL_MAPPINGS) = {77}
    /\ DOMAIN Unwrap(INPUT_SOURCE_MAPPINGS) = {72}
    /\ \E m \in Range(Table) : m.action.kind = "command" /\ ~m.with_shift
    /\ \E m \in Range(Table) : m.action.kind = "input_source" /\ m.with_shift

\* C38: the legacy removal commands only touch entries of their own kind.
\* remove_mapping(key) changes the table only if the (key, with_shift = true)
\* entry is a Command, remove_input_source_mapping(key) only if the
\* (key, with_shift = false) entry is an InputSource; in every other case the
\* table is left unchanged.
C38_LegacyRemovalsOwnKind ==
    [][/\ (out'.kind = "remove" /\ out'.command = "remove_mapping" /\ Table' # Table) =>
             \E m \in Range(Table) :
                 m.key = out'.key /\ m.with_shift /\ m.action.kind = "command"
       /\ (out'.kind = "remove" /\ out'.command = "remove_input_source_mapping"
           /\ Table' # Table) =>
             \E m \in Range(Table) :
                 m.key = out'.key /\ ~m.with_shift /\ m.action.kind = "input_source"]_vars

\* the macOS callback just ran while the mapping table was still absent
BeforeLoad == platform = "macos" /\ HookRan /\ ACTION_MAPPINGS = None

\* C39: the hook runs before the mapping table is loaded.  While
\* ACTION_MAPPINGS is still None the macOS hook resolves every key to no
\* action: every non-Hyper key passes through with nothing posted, queued or
\* spawned and did_remap stays false, while Hyper is tracked as usual (a
\* press sets held, a release clears it, and a tap held for at most 200 ms
\* toggles the native lock); once the load has completed, a key event handled
\* with Hyper held is resolved against the loaded table.
C39_HookBeforeLoad ==
    /\ (platform = "macos" /\ ACTION_MAPPINGS = None) => ~DID_REMAP
    /\ (BeforeLoad /\ OtherKey) => (out.verdict = "pass" /\ NoEffect(out))
    /\ (BeforeLoad /\ HyperEvent /\ ~out.paused /\ out.ev.keycode = 79) =>
          (CAPS_DOWN <=> out.ev.type = "KeyDown")
    /\ (BeforeLoad /\ HyperReleased /\ ~out.paused /\ out.hold.unpaused
        /\ out.hold.released) =>
          out.toggles = (IF HeldFor <= 200 THEN 1 ELSE 0)
    /\ (platform = "macos" /\ Loaded /\ OtherKey /\ ~out.paused /\ CAPS_DOWN) =>
          (out.verdict = "suppress" <=> ResolvedEntry # None)

\* H is pressed with Hyper held and the table absent: it passes through
C39_Witness ==
    /\ BeforeLoad /\ OtherKey /\ ~out.paused /\ CAPS_DOWN /\ out.hold.open
    /\ out.ev = Physical("KeyDown", 4, {})
    /\ out.verdict = "pass" /\ ~DID_REMAP

\* a thread is inside a lookup or a command: it waits for a mutex or holds one
HookInLookup == pc.hook.at \in {"resolve_lock", "resolve", "shell_lock", "shell_lookup"}

CommandRunning ==
    pc.main.at \in {"lock_table", "mutate", "sync_shell", "sync_input", "save_lock",
                    "save_write"}

\* C40: deadlock freedom.  For every interleaving of the hook thread (which
\* takes the ACTION_MAPPINGS lock on macOS, the SHELL_MAPPINGS lock on
\* Windows, and the log lock) with the configuration commands (which take
\* ACTION_MAPPINGS, then SHELL_MAPPINGS and INPUT_SOURCE_MAPPINGS while still
\* holding it, and ACTION_MAPPINGS again for saving), no thread waits forever
\* for a lock: every lookup the callback starts ends with the callback
\* returned, and every upsert or remove that starts completes.
C40_DeadlockFreedom ==
    /\ (HookInLookup \/ At("hook", "log_lock")) ~> At("hook", "idle")
    /\ CommandRunning ~> At("main", "idle")

\* Windows: the command holds the table's lock and waits for SHELL_MAPPINGS,
\* which the hook thread holds for its lookup
C40_Witness ==
    /\ platform = "windows"
    /\ At("main", "sync_shell") /\ lock["ACTION_MAPPINGS"] = "main"
    /\ At("hook", "shell_lookup") /\ lock["SHELL_MAPPINGS"] = "hook"

====
